---- MODULE Spec2Model ----
(***************************************************************************)
(* pylsl-tools: the simulated stream workers (streams/test_stream.py),     *)
(* their process base class (streams/base_stream.py), the parent that      *)
(* spawns and controls them (simulate.py) and the control receiver thread  *)
(* that feeds the parent (streams/control_receiver.py).                    *)
(*                                                                         *)
(* Time is counted in whole ticks of the LSL local clock.  One sample      *)
(* period (delta = 1 / nominal_srate) is Delta ticks.                      *)
(***************************************************************************)
EXTENDS Integers, Sequences, FiniteSets, TLC

(* ------------------------------ bounds -------------------------------- *)

\* Ticks in one sample period.
Delta == 1
\* The local clock runs from 1 to MaxClock.
MaxClock == 2
\* Largest time stamp a control sample on the wire carries.
MaxStamp == 3
\* Number of state changes the control stream goes through.
MaxMessages == 3
\* Messages the control receiver holds for the parent before the model makes
\* the next control sample wait.
MaxQueue == 1
\* Samples one worker pushes before the model stops following it.
MaxPushed == 3
\* Largest configured max_samples.
MaxSamples == 1
\* Scheduling latency (--latency), in ticks.
Latency == 1
\* Messages waiting in a mailbox when a worker is followed on its own.
MaxMailbox == 1
MaxTyped == 3
MaxSpawned == 3
MaxUpstream == 2
MaxRows == 3
MaxChunk == 2
MaxPlayed == 4
MaxPulls == 2
\* How far past MaxClock the clock of a late worker may be.
MaxLate == 2
\* The test streams and sample indices of generate_sample.
MaxStreamIdx == 1
MaxChannels == 2
MaxSrate == 2
MaxSampleIdx == 3
MaxRestart == 4
MaxBroadcasts == 1

(* ----------------------------- constants ------------------------------ *)

\* Python's None.
None == -1
\* A dictionary key or an attribute that does not exist.
Absent == -2

\* ControlStates (IntEnum, auto()).
STOP == 1
START == 2
PAUSE == 3

\* The worker processes (--num-streams 2).
Streams == {1, 2}
NumStreams == Cardinality(Streams)
ControlStates == {STOP, START, PAUSE}

\* Python's min of two numbers.
min(a, b) == IF a <= b THEN a ELSE b

\* Python truth value of a number or None.
Truthy(x) == x # None /\ x # 0

Message(state, time_stamp, latency) ==
  [state |-> state, time_stamp |-> time_stamp, latency |-> latency]

\* The empty string a stopping process puts on the shared queue.
Sentinel == "sentinel"

(* ------------------------------ state --------------------------------- *)

VARIABLES
  clock,          \* local_clock()
  config,         \* command line: controller, sync, max_samples, max_time
  stream,         \* per worker: position and attributes of BaseTestStream
  mailbox,        \* per worker: recv_message_queue
  stop_event,     \* per worker: multiprocessing.Event
  outlet,         \* per worker: the samples pushed, <<sample index, time stamp>>
  handled,        \* per worker: the messages taken from the mailbox, each with
                  \* the worker's attributes when it took it
  barrier,        \* workers that have arrived at the barrier
  sentinels,      \* per worker: empty strings its stop() calls have put
  parent_queue,   \* Simulate.recv_message_queue (shared by the workers)
  parent,         \* Simulate: positions of start(), its tasks and stop()
  receiver,       \* ControlReceiver thread
  control_queue,  \* ControlReceiver.send_message_queue
  notified,       \* state changes the control receiver has notified
  taken,          \* the messages recv_from_controller has got, in order
  sender,         \* ControlSender thread
  wire,           \* samples the sender's outlet has pushed, not yet pulled
  typed,          \* the commands entered at the sender's prompt, in order
  pulled,         \* the messages the receiver has pulled and parsed, in order
  forwarded,      \* the messages the receiver has put on its queue, in order
  args,           \* relay command line: --pred, --non-local
  relay,          \* Relay: the predicate composed, the streams it relays
  network,        \* the streams a resolver can see: name, type, hostname
  relay_streams,  \* the RelayStream processes started, in order of start
  playback,       \* playback: its arguments, the generator and the stream
  marker_thread,  \* a ControlReceiver or MonitorReceiver thread followed alone
  sample_call,    \* one call of generate_sample: the stream, the index, the result
  threads         \* Relay: where its resolver thread and its main thread are

vars == <<clock, config, stream, mailbox, stop_event, outlet, handled, barrier,
          sentinels, parent_queue, parent, receiver, control_queue, notified,
          taken, sender, wire, typed, pulled, forwarded, args, relay, network,
          relay_streams, playback, marker_thread, sample_call, threads>>

workerVars ==
  <<stream, mailbox, stop_event, outlet, handled, barrier, sentinels>>
parentVars == <<parent_queue, parent, taken>>
controlVars == <<receiver, control_queue, notified>>
senderVars == <<sender, wire, typed, pulled, forwarded>>
relayVars == <<args, relay, network, relay_streams>>

(* ------------------------- the stream worker -------------------------- *)

\* BaseTestStream.__init__: the attributes of a fresh worker.  logical_time
\* and latency are not assigned before the first START.
NewStream ==
  [pc |-> "create", sample_count |-> 0, elapsed_time |-> 0,
   start_time |-> None, stop_time |-> None,
   logical_time |-> Absent, latency |-> Absent, exc |-> "none"]

raise(s, name) == [s EXCEPT !.exc = name]

\* A worker whose START begins the count of samples again.  The sample count
\* must not be kept by it.
initialise_time_reset(s, start_time, latency) ==
  [s EXCEPT !.latency = latency, !.start_time = start_time,
            !.logical_time = start_time, !.elapsed_time = 0,
            !.sample_count = 0]

initialise_time(s, start_time, latency) ==
  [s EXCEPT !.latency = latency, !.start_time = start_time,
            !.logical_time = start_time, !.elapsed_time = 0]

\* A worker that starts on its own clock reading whatever the START says.
\* The synchronous start must not hold of it.
handle_message_local_start(s, message, now) ==
  CASE message.state = PAUSE -> [s EXCEPT !.stop_time = message.time_stamp]
    [] message.state = START ->
         IF message.latency = Absent
           THEN raise(s, "KeyError")
           ELSE initialise_time(s, now, message.latency)
    [] message.state = STOP -> [s EXCEPT !.stop_time = message.time_stamp]
    [] OTHER -> s

\* A worker that times a PAUSE from the moment the message reaches it
\* instead of from the time stamp the message carries.  The synchronised
\* pause must not hold of it.
handle_message_local_pause(s, message, now) ==
  CASE message.state = PAUSE -> [s EXCEPT !.stop_time = now + Latency]
    [] message.state = START ->
         IF message.latency = Absent
           THEN raise(s, "KeyError")
           ELSE initialise_time(
                  s,
                  IF Truthy(message.time_stamp) THEN message.time_stamp ELSE now,
                  message.latency)
    [] message.state = STOP -> [s EXCEPT !.stop_time = message.time_stamp]
    [] OTHER -> s

\* The message branch of check_control_state: message is what get() returned,
\* now is what local_clock() returns.
handle_message(s, message, now) ==
  CASE message.state = PAUSE -> [s EXCEPT !.stop_time = message.time_stamp]
    [] message.state = START ->
         IF message.latency = Absent
           THEN raise(s, "KeyError")
           ELSE initialise_time(
                  s,
                  IF Truthy(message.time_stamp) THEN message.time_stamp ELSE now,
                  message.latency)
    [] message.state = STOP -> [s EXCEPT !.stop_time = message.time_stamp]
    [] OTHER -> s

\* check_control_state blocks on get() unless the worker is started and its
\* mailbox is empty.
takes_message(s, queue) == ~(Truthy(s.start_time) /\ queue = <<>>)

\* A worker that stops one sample period before the stop time.  The count
\* of samples pushed up to a PAUSE must not hold of it.
stop_time_reached_early(s) ==
  IF s.stop_time = None THEN s
  ELSE IF s.logical_time = Absent THEN raise(s, "AttributeError")
  ELSE IF s.logical_time + Delta >= s.stop_time
         THEN [s EXCEPT !.start_time = None, !.stop_time = None]
         ELSE s

\* check_continue after is_stopped() and check_control_state(): the
\* synchronised stop time and the two caps.  Returns the attributes and
\* whether the loop goes on.
stop_time_reached(s) ==
  IF s.stop_time = None THEN s
  ELSE IF s.logical_time = Absent THEN raise(s, "AttributeError")
  ELSE IF s.logical_time >= s.stop_time
         THEN [s EXCEPT !.start_time = None, !.stop_time = None]
         ELSE s

within_caps(s) ==
  /\ ~(config.max_time # None /\ s.elapsed_time > config.max_time)
  /\ ~(config.max_samples # None /\ s.sample_count > config.max_samples)

\* A worker that stamps from the wall clock: the next time stamp is the
\* time at which the push is made, shifted by the latency.  The time stamp
\* grid must not hold of it.
push_sample_wall_clock(s, now) ==
  LET logical_time == now + s.latency + Delta
      delay == logical_time - (now + s.latency)
  IN [s EXCEPT !.sample_count = s.sample_count + 1,
               !.logical_time = logical_time,
               !.elapsed_time = logical_time - s.start_time,
               !.pc = IF delay > 0 THEN "sleep" ELSE "loop"]

\* A loop body that drops the next sample when the clock is past
\* logical_time.
push_sample_skipping(s, now) ==
  LET skipped == IF now > s.logical_time THEN 1 ELSE 0
      logical_time == s.logical_time + Delta + skipped * Delta
      delay == logical_time - (now + s.latency)
  IN [s EXCEPT !.sample_count = s.sample_count + 1 + skipped,
               !.logical_time = logical_time,
               !.elapsed_time = logical_time - s.start_time,
               !.pc = IF delay > 0 THEN "sleep" ELSE "loop"]

\* The loop body of run(): push one sample stamped logical_time, then step
\* the logical clock and sleep away what is left of the period.
push_sample(s, now) ==
  LET logical_time == s.logical_time + Delta
      delay == logical_time - (now + s.latency)
  IN [s EXCEPT !.sample_count = s.sample_count + 1,
               !.logical_time = logical_time,
               !.elapsed_time = logical_time - s.start_time,
               !.pc = IF delay > 0 THEN "sleep" ELSE "loop"]

\* run(): make the outlet, then wait at the barrier.
CreateOutlet(w) ==
  /\ stream[w].pc = "create"
  /\ stream' = [stream EXCEPT ![w].pc = "barrier"]
  /\ barrier' = barrier + 1
  /\ UNCHANGED <<clock, config, threads, playback, marker_thread, sample_call, relayVars, senderVars, mailbox, stop_event, outlet, handled, sentinels>>
  /\ UNCHANGED <<parentVars, controlVars>>

\* run() up to the barrier when make_stream_info() or StreamOutlet(info)
\* raises: these calls stand before the try statement, so the exception
\* ends the process at once; stop() is not called and the barrier is not
\* reached.
CreateOutletFails(w) ==
  /\ stream[w].pc = "create"
  /\ stream' = [stream EXCEPT ![w] = raise([@ EXCEPT !.pc = "ended"], "RuntimeError")]
  /\ UNCHANGED <<clock, config, threads, playback, marker_thread, sample_call, relayVars, senderVars, mailbox, stop_event, outlet, handled, barrier, sentinels>>
  /\ UNCHANGED <<parentVars, controlVars>>

\* A worker that goes on from the barrier without waiting for the others.
\* The rendezvous must not hold of it.
BarrierWaitAlone(w) ==
  /\ stream[w].pc = "barrier"
  /\ stream' = [stream EXCEPT ![w].pc = "loop"]
  /\ UNCHANGED <<clock, config, threads, playback, marker_thread, sample_call, relayVars, senderVars, mailbox, stop_event, outlet, handled, barrier, sentinels>>
  /\ UNCHANGED <<parentVars, controlVars>>

BarrierWait(w) ==
  /\ stream[w].pc = "barrier"
  /\ barrier = NumStreams
  /\ stream' = [stream EXCEPT ![w].pc = "loop"]
  /\ UNCHANGED <<clock, config, threads, playback, marker_thread, sample_call, relayVars, senderVars, mailbox, stop_event, outlet, handled, barrier, sentinels>>
  /\ UNCHANGED <<parentVars, controlVars>>

\* check_continue, first test: is_stopped().  A sleeping worker comes here
\* when time.sleep(delay) returns.
IsStopped(w) ==
  /\ \/ stream[w].pc = "loop"
     \/ /\ stream[w].pc = "sleep"
        /\ clock >= stream[w].logical_time - stream[w].latency
  /\ stream' = [stream EXCEPT
                  ![w].pc = IF stop_event[w] THEN "finally" ELSE "control"]
  /\ UNCHANGED <<clock, config, threads, playback, marker_thread, sample_call, relayVars, senderVars, mailbox, stop_event, outlet, handled, barrier, sentinels>>
  /\ UNCHANGED <<parentVars, controlVars>>

\* A loop body that pushes whether the worker is started or not.  Pushing
\* only while running must not hold of it.
is_started_always(s) == TRUE

\* "if self.start_time:" at the head of the loop body.
is_started(s) == Truthy(s.start_time)

\* The rest of one loop iteration: check_control_state(), the remaining
\* tests of check_continue() and, when the worker is started, the loop body.
Iterate(w) ==
  LET s0 == stream[w]
      takes == takes_message(s0, mailbox[w])
      s1 == IF takes THEN handle_message(s0, Head(mailbox[w]), clock) ELSE s0
      s2 == IF s1.exc = "none" THEN stop_time_reached(s1) ELSE s1
      goes_on == s2.exc = "none" /\ within_caps(s2)
      pushes == goes_on /\ is_started(s2)
      s3 == IF pushes THEN push_sample(s2, clock)
            ELSE [s2 EXCEPT !.pc = IF goes_on THEN "loop" ELSE "finally"]
  IN /\ s0.pc = "control"
     /\ takes => mailbox[w] # <<>>
     /\ pushes => Len(outlet[w]) < MaxPushed
     /\ stream' = [stream EXCEPT ![w] = s3]
     /\ mailbox' = IF takes THEN [mailbox EXCEPT ![w] = Tail(@)] ELSE mailbox
     /\ handled' =
          IF takes
            THEN [handled EXCEPT ![w] = Append(@,
                    [message |-> Head(mailbox[w]),
                     running |-> Truthy(s0.start_time),
                     logical_time |-> s0.logical_time,
                     pushed |-> Len(outlet[w]),
                     start_time |-> s1.start_time])]
            ELSE handled
     /\ outlet' =
          IF pushes
            THEN [outlet EXCEPT ![w] = Append(@, <<s2.sample_count, s2.logical_time>>)]
            ELSE outlet
     /\ UNCHANGED <<clock, config, threads, playback, marker_thread, sample_call, relayVars, senderVars, stop_event, barrier, sentinels>>
     /\ UNCHANGED <<parentVars, controlVars>>

\* BaseStreamProcess.stop() called by the worker itself in the finally
\* clause of run(): test the event, set it, put the sentinel.
FinallyStop(w) ==
  /\ stream[w].pc = "finally"
  /\ stream' = [stream EXCEPT
                  ![w].pc = IF stop_event[w] THEN "ended" ELSE "stop_set"]
  /\ UNCHANGED <<clock, config, threads, playback, marker_thread, sample_call, relayVars, senderVars, mailbox, stop_event, outlet, handled, barrier, sentinels>>
  /\ UNCHANGED <<parentVars, controlVars>>

FinallySet(w) ==
  /\ stream[w].pc = "stop_set"
  /\ stop_event' = [stop_event EXCEPT ![w] = TRUE]
  /\ stream' = [stream EXCEPT ![w].pc = "stop_put"]
  /\ UNCHANGED <<clock, config, threads, playback, marker_thread, sample_call, relayVars, senderVars, mailbox, outlet, handled, barrier, sentinels>>
  /\ UNCHANGED <<parentVars, controlVars>>

\* A stop() that sets the event and puts no sentinel.  The parent must not
\* be sure to end with it.
FinallyPutNothing(w) ==
  /\ stream[w].pc = "stop_put"
  /\ stream' = [stream EXCEPT ![w].pc = "ended"]
  /\ UNCHANGED <<clock, config, threads, playback, marker_thread, sample_call, relayVars, senderVars, mailbox, stop_event, outlet, handled, barrier, sentinels>>
  /\ UNCHANGED <<parentVars, controlVars>>

FinallyPut(w) ==
  /\ stream[w].pc = "stop_put"
  /\ parent_queue' = Append(parent_queue, Sentinel)
  /\ sentinels' = [sentinels EXCEPT ![w] = @ + 1]
  /\ stream' = [stream EXCEPT ![w].pc = "ended"]
  /\ UNCHANGED <<clock, config, threads, playback, marker_thread, sample_call, relayVars, senderVars, mailbox, stop_event, outlet, handled, barrier>>
  /\ UNCHANGED <<parent, taken, controlVars>>

\* Process.is_alive(): started and not yet exited.
is_alive(w) == stream[w].pc # "ended"

\* local_clock() advances.
Tick ==
  /\ clock < MaxClock
  /\ clock' = clock + 1
  /\ UNCHANGED <<config, threads, playback, marker_thread, sample_call, relayVars, senderVars, workerVars, parentVars, controlVars>>

(* ----------------------------- the relay ------------------------------ *)

\* The relay before main() has composed its predicate.
NewRelay ==
  [pc |-> "main", pred |-> <<>>, active_streams |-> [key \in {} |-> 0],
   stop_event |-> FALSE, recv_message_queue |-> <<>>]

\* platform.node() of the machine the relay runs on, and another machine.
Here == "here"
Hostnames == {Here, "there"}

\* Stream names are the base name with the prefixes put before it.
RELAY == "_relay_"
MONITOR == "_monitor_"
starts_with(name, prefix) == Len(name) > 1 /\ Head(name) = prefix

\* Conditions a predicate is built from, written as they appear in it.
Conditions ==
  {"starts-with(name, '_relay_')", "starts-with(name, '_monitor_')",
   "type='control'", "type='Markers'", "type='EEG'", "type='monitor'",
   "name='a'", "hostname='here'"}

Holds(condition, info) ==
  CASE condition = "starts-with(name, '_relay_')" -> starts_with(info.name, RELAY)
    [] condition = "starts-with(name, '_monitor_')" -> starts_with(info.name, MONITOR)
    [] condition = "type='control'" -> info.type = "control"
    [] condition = "type='Markers'" -> info.type = "Markers"
    [] condition = "type='EEG'" -> info.type = "EEG"
    [] condition = "type='monitor'" -> info.type = "monitor"
    [] condition = "name='a'" -> info.name = <<"a">>
    [] condition = "hostname='here'" -> info.hostname = Here

\* The value of a predicate for a stream, as the resolver's XPath 1.0
\* evaluation gives it: `and` binds tighter than `or`, not(...) and (...)
\* group, and a predicate that does not parse has no value.
Failed == [ok |-> FALSE, value |-> FALSE, rest |-> <<>>]
Parsed(value, rest) == [ok |-> TRUE, value |-> value, rest |-> rest]

RECURSIVE OrExpr(_, _)
RECURSIVE OrTail(_, _, _)
RECURSIVE AndExpr(_, _)
RECURSIVE AndTail(_, _, _)
RECURSIVE Primary(_, _)

Primary(tokens, info) ==
  IF tokens = <<>> THEN Failed
  ELSE IF Head(tokens) \in {"not(", "("}
    THEN LET inner == OrExpr(Tail(tokens), info) IN
           IF inner.ok /\ inner.rest # <<>> /\ Head(inner.rest) = ")"
             THEN Parsed(IF Head(tokens) = "not(" THEN ~inner.value
                         ELSE inner.value,
                         Tail(inner.rest))
             ELSE Failed
  ELSE IF Head(tokens) \in Conditions
    THEN Parsed(Holds(Head(tokens), info), Tail(tokens))
  ELSE Failed

AndTail(left, tokens, info) ==
  IF tokens # <<>> /\ Head(tokens) = "and"
    THEN LET right == Primary(Tail(tokens), info) IN
           IF right.ok THEN AndTail(left /\ right.value, right.rest, info)
           ELSE Failed
    ELSE Parsed(left, tokens)

AndExpr(tokens, info) ==
  LET first == Primary(tokens, info) IN
    IF first.ok THEN AndTail(first.value, first.rest, info) ELSE Failed

OrTail(left, tokens, info) ==
  IF tokens # <<>> /\ Head(tokens) = "or"
    THEN LET right == AndExpr(Tail(tokens), info) IN
           IF right.ok THEN OrTail(left \/ right.value, right.rest, info)
           ELSE Failed
    ELSE Parsed(left, tokens)

OrExpr(tokens, info) ==
  LET first == AndExpr(tokens, info) IN
    IF first.ok THEN OrTail(first.value, first.rest, info) ELSE Failed

well_formed(pred, info) ==
  LET r == OrExpr(pred, info) IN r.ok /\ r.rest = <<>>

\* A stream is among resolver.results() when the predicate parses and is
\* true of it; a predicate that does not parse matches no stream.
matches(pred, info) ==
  well_formed(pred, info) /\ OrExpr(pred, info).value

\* The four exclusions with every parenthesis closed once, followed by the
\* user's predicate in parentheses.
compose_balanced(pred, non_local) ==
  LET exclusions ==
        <<"not(", "starts-with(name, '_relay_')", ")", "and",
          "not(", "starts-with(name, '_monitor_')", ")", "and",
          "not(", "type='control'", ")", "and",
          "not(", "type='Markers'", ")">>
      composed == IF Len(pred) > 0 THEN exclusions \o <<"and">> \o pred
                  ELSE exclusions
  IN IF ~non_local THEN <<"hostname='here'", "and">> \o composed
     ELSE composed

\* main(): "Add additional predicates."  The strings are joined as written,
\* the two closing parentheses after type='control' and after type='Markers'
\* of the first branch included.
compose(pred, non_local) ==
  LET composed ==
        IF Len(pred) > 0
          THEN <<"not(", "starts-with(name, '_relay_')", ")", "and",
                 "not(", "starts-with(name, '_monitor_')", ")", "and",
                 "not(", "type='control'", ")", ")", "and",
                 "not(", "type='Markers'", ")", ")", "and">> \o pred
          ELSE <<"not(", "starts-with(name, '_relay_')", ")", "and",
                 "not(", "starts-with(name, '_monitor_')", ")", "and",
                 "not(", "type='control'", ")", "and",
                 "not(", "type='Markers'", ")">>
  IN IF ~non_local THEN <<"hostname='here'", "and">> \o composed
     ELSE composed

\* main() up to the construction of the Relay.
main ==
  /\ relay.pc = "main"
  /\ relay' = [relay EXCEPT !.pc = "run",
                            !.pred = compose(args.pred, args.non_local)]
  /\ UNCHANGED <<clock, config, threads, playback, marker_thread, sample_call, senderVars, workerVars, parentVars, controlVars>>
  /\ UNCHANGED <<args, network, relay_streams>>

\* Relay.make_stream_key: the fields of the stream joined with ':'.  (The
\* channel count and the source id, which the streams here do not differ
\* in, are left out.)
make_stream_key(info) == info.name \o <<":", info.type, ":", info.hostname>>

\* RelayStream.__init__: a process that has not run yet.  `inlet` is what
\* the upstream has sent and the process has not pulled; `lost` says that
\* the upstream went away after the process found it; `received` is what
\* the process has pulled, each sample with the local_clock() read after
\* its pull; `pushed` is what it has pushed to its outlet; `heartbeats` is
\* what its MonitorSender has sent.
NewRelayStream(info) ==
  [info |-> info, pc |-> "resolve", stop_event |-> FALSE, exc |-> "none",
   inlet |-> <<>>, lost |-> FALSE, received |-> <<>>, pushed |-> <<>>,
   sample_count |-> 0, heartbeats |-> <<>>]

\* active_streams[stream_key] = new_stream, and del active_streams[stream_key].
dict_set(dict, key, value) ==
  [k \in DOMAIN dict \cup {key} |-> IF k = key THEN value ELSE dict[k]]
dict_del(dict, keys) == [k \in DOMAIN dict \ keys |-> dict[k]]

\* A relay that starts a RelayStream for every stream in the results,
\* whether its key is in active_streams or not.
RECURSIVE new_streams_always(_, _, _)
new_streams_always(streams, active_streams, procs) ==
  IF streams = {} THEN [active_streams |-> active_streams, procs |-> procs]
  ELSE LET info == CHOOSE s \in streams : TRUE IN
         new_streams_always(streams \ {info},
                     dict_set(active_streams, make_stream_key(info), Len(procs) + 1),
                     Append(procs, NewRelayStream(info)))

\* Relay.run, the for loop over resolver.results(): a RelayStream is made,
\* entered in active_streams and started for every stream whose key is not
\* in active_streams.
RECURSIVE new_streams(_, _, _)
new_streams(streams, active_streams, procs) ==
  IF streams = {} THEN [active_streams |-> active_streams, procs |-> procs]
  ELSE LET info == CHOOSE s \in streams : TRUE
           stream_key == make_stream_key(info)
       IN IF stream_key \notin DOMAIN active_streams
            THEN new_streams(streams \ {info},
                             dict_set(active_streams, stream_key, Len(procs) + 1),
                             Append(procs, NewRelayStream(info)))
            ELSE new_streams(streams \ {info}, active_streams, procs)

\* A relay that never removes an entry.
remove_lost_streams_never(active_streams, procs) == active_streams

\* Relay.remove_lost_streams: the entries whose process has its stop event
\* set are deleted.
remove_lost_streams(active_streams, procs) ==
  dict_del(active_streams,
           {key \in DOMAIN active_streams : procs[active_streams[key]].stop_event})

\* resolver.results(): the streams on the network the predicate matches.
results == {info \in network : matches(relay.pred, info)}

\* Relay.run, one turn of its loop (a resolver tick): start what is new,
\* then remove what is lost.
RelayRun ==
  /\ relay.pc = "run"
  /\ ~relay.stop_event
  /\ LET started == new_streams(results, relay.active_streams, relay_streams) IN
       /\ Len(started.procs) <= MaxSpawned
       /\ relay_streams' = started.procs
       /\ relay' = [relay EXCEPT !.active_streams =
                      remove_lost_streams(started.active_streams, started.procs)]
  /\ UNCHANGED <<clock, config, threads, playback, marker_thread, sample_call, senderVars, workerVars, parentVars, controlVars>>
  /\ UNCHANGED <<args, network>>

\* recv_from_streams: one message got from the queue the processes share.
RelayRecvFromStreams ==
  /\ relay.pc = "run"
  /\ relay.recv_message_queue # <<>>
  /\ relay' = [relay EXCEPT !.recv_message_queue = Tail(@)]
  /\ UNCHANGED <<clock, config, threads, playback, marker_thread, sample_call, senderVars, workerVars, parentVars, controlVars>>
  /\ UNCHANGED <<args, network, relay_streams>>

ActiveProcs == {relay.active_streams[key] : key \in DOMAIN relay.active_streams}

\* Relay.stop(), called when the relay is interrupted: set the event, put
\* the empty string on the relay's own queue, and stop() every active
\* stream that is not stopped, which sets its event and puts an empty
\* string on the same queue.
RelayStop ==
  /\ relay.pc = "run"
  /\ LET stopping == {id \in ActiveProcs : ~relay_streams[id].stop_event}
         puts == [i \in 1..(1 + Cardinality(stopping)) |-> ""]
     IN /\ relay' = [relay EXCEPT !.stop_event = TRUE, !.pc = "join",
                                  !.recv_message_queue = @ \o puts]
        /\ relay_streams' =
             [id \in DOMAIN relay_streams |->
                IF id \in stopping
                  THEN [relay_streams[id] EXCEPT !.stop_event = TRUE]
                  ELSE relay_streams[id]]
  /\ UNCHANGED <<clock, config, threads, playback, marker_thread, sample_call, senderVars, workerVars, parentVars, controlVars>>
  /\ UNCHANGED <<args, network>>

\* Relay.stop(): stream.join() has returned for every active stream.
RelayJoin ==
  /\ relay.pc = "join"
  /\ \A id \in ActiveProcs : relay_streams[id].pc = "ended"
  /\ relay' = [relay EXCEPT !.pc = "stopped"]
  /\ UNCHANGED <<clock, config, threads, playback, marker_thread, sample_call, senderVars, workerVars, parentVars, controlVars>>
  /\ UNCHANGED <<args, network, relay_streams>>

(* -------------------------- the relay stream -------------------------- *)

\* Positional arguments besides self: what make_stream_info of DataStream
\* and of BaseMarkerStream takes, what RelayStream.run passes to it, and
\* what MonitorSender.__init__ passes to it.
make_stream_info_parameters == 0
relay_stream_arguments == 5
monitor_sender_arguments == 4

\* A call with more positional arguments than parameters is a TypeError.
TypeError(arguments, parameters) == arguments > parameters

\* pylsl's IRREGULAR_RATE, the nominal rate of every marker stream, the
\* monitor's among them.
IRREGULAR_RATE == 0

\* The nominal rate of the relayed stream and --monitor-interval.
NominalSrate == 1
MonitorInterval == 2

\* "if self.monitor and (self.monitor.nominal_srate == 0 or ...)".
heartbeat_due(sample_count) ==
  \/ IRREGULAR_RATE = 0
  \/ sample_count % (NominalSrate * MonitorInterval) = 0

\* run() before the stream is found: resolve_bypred until the upstream is
\* seen or the process is stopped.
RelayResolve(id) ==
  /\ relay_streams[id].pc = "resolve"
  /\ \/ /\ relay_streams[id].info \in network
        /\ relay_streams' = [relay_streams EXCEPT ![id].pc = "open"]
     \/ /\ relay_streams[id].info \notin network
        /\ relay_streams[id].stop_event
        /\ relay_streams' = [relay_streams EXCEPT ![id].pc = "ended"]
  /\ UNCHANGED <<clock, config, threads, playback, marker_thread, sample_call, senderVars, workerVars, parentVars, controlVars>>
  /\ UNCHANGED <<args, relay, network>>

\* run() from the inlet to the try statement: open the inlet, make the
\* stream info and the outlet when output is on, make the MonitorSender
\* when monitoring is on.  An exception here ends the process outside the
\* try statement: stop() is not called.
RelayOpen(id) ==
  /\ relay_streams[id].pc = "open"
  /\ relay_streams' =
       IF /\ args.output
          /\ TypeError(relay_stream_arguments, make_stream_info_parameters)
         THEN [relay_streams EXCEPT ![id].pc = "ended", ![id].exc = "TypeError"]
       ELSE IF /\ args.monitor
               /\ TypeError(monitor_sender_arguments, make_stream_info_parameters)
         THEN [relay_streams EXCEPT ![id].pc = "ended", ![id].exc = "TypeError"]
       ELSE [relay_streams EXCEPT ![id].pc = "loop"]
  /\ UNCHANGED <<clock, config, threads, playback, marker_thread, sample_call, senderVars, workerVars, parentVars, controlVars>>
  /\ UNCHANGED <<args, relay, network>>

\* "while not self.is_stopped()".
RelayIsStopped(id) ==
  /\ relay_streams[id].pc = "loop"
  /\ relay_streams' = [relay_streams EXCEPT ![id].pc =
                         IF relay_streams[id].stop_event THEN "finally"
                         ELSE "pull"]
  /\ UNCHANGED <<clock, config, threads, playback, marker_thread, sample_call, senderVars, workerVars, parentVars, controlVars>>
  /\ UNCHANGED <<args, relay, network>>

\* The body of the loop for a sample pulled at local_clock() = now.
relay_sample(s, sample, now) ==
  LET timestamp == IF args.re_encode_timestamps THEN now ELSE sample.timestamp
      pulled_s == [s EXCEPT !.inlet = Tail(@),
                            !.received = Append(@, [payload |-> sample.payload,
                                                    timestamp |-> sample.timestamp,
                                                    now |-> now])]
      pushed_s == IF args.output
                    THEN [pulled_s EXCEPT !.pushed =
                            Append(@, [payload |-> sample.payload,
                                       timestamp |-> timestamp])]
                    ELSE pulled_s
  IN IF args.monitor /\ heartbeat_due(s.sample_count)
       \* self.monitor.send(name=..., sample_count=...): send() takes text.
       THEN [pushed_s EXCEPT !.pc = "finally", !.exc = "TypeError"]
       ELSE [pushed_s EXCEPT !.pc = "loop", !.sample_count = @ + 1]

\* inlet.pull_sample() with no timeout: it returns the next sample, raises
\* LostError when the upstream is gone, and otherwise does not return.
RelayPull(id) ==
  /\ relay_streams[id].pc = "pull"
  /\ \/ /\ relay_streams[id].inlet # <<>>
        /\ relay_streams' =
             [relay_streams EXCEPT ![id] =
                relay_sample(@, Head(relay_streams[id].inlet), clock)]
     \/ /\ relay_streams[id].inlet = <<>>
        /\ relay_streams[id].lost
        /\ relay_streams' = [relay_streams EXCEPT ![id].pc = "finally",
                                                  ![id].exc = "LostError"]
  /\ UNCHANGED <<clock, config, threads, playback, marker_thread, sample_call, senderVars, workerVars, parentVars, controlVars>>
  /\ UNCHANGED <<args, relay, network>>

\* The finally clause: stop(), which sets the event and puts the empty
\* string on the relay's queue unless the event is set, and cleanup(),
\* which closes the inlet.
RelayFinally(id) ==
  /\ relay_streams[id].pc = "finally"
  /\ relay_streams' = [relay_streams EXCEPT ![id].pc = "ended",
                                            ![id].stop_event = TRUE]
  /\ relay' = IF relay_streams[id].stop_event THEN relay
              ELSE [relay EXCEPT !.recv_message_queue = Append(@, "")]
  /\ UNCHANGED <<clock, config, threads, playback, marker_thread, sample_call, senderVars, workerVars, parentVars, controlVars>>
  /\ UNCHANGED <<args, network>>

RelayStream(id) ==
  \/ RelayResolve(id)
  \/ RelayOpen(id)
  \/ RelayIsStopped(id)
  \/ RelayPull(id)
  \/ RelayFinally(id)

(* ------------------------ the relayed streams ------------------------- *)

\* Has the process an inlet on its upstream?
connected(s) == s.pc \in {"open", "loop", "pull"} /\ ~s.lost

\* The upstream of a relay stream sends its next sample: the payload is its
\* number in the stream, the time stamp is the sender's local_clock().
UpstreamPush(id) ==
  /\ connected(relay_streams[id])
  /\ Len(relay_streams[id].received) + Len(relay_streams[id].inlet) < MaxUpstream
  /\ relay_streams' =
       [relay_streams EXCEPT ![id].inlet =
          Append(@, [payload |-> Len(relay_streams[id].received) + Len(@) + 1,
                     timestamp |-> clock])]
  /\ UNCHANGED <<clock, config, threads, playback, marker_thread, sample_call, senderVars, workerVars, parentVars, controlVars>>
  /\ UNCHANGED <<args, relay, network>>

\* A stream leaves the network: every inlet on it is lost.
UpstreamLost(info) ==
  /\ info \in network
  /\ network' = network \ {info}
  /\ relay_streams' =
       [id \in DOMAIN relay_streams |->
          IF relay_streams[id].info = info /\ connected(relay_streams[id])
            THEN [relay_streams[id] EXCEPT !.lost = TRUE]
            ELSE relay_streams[id]]
  /\ UNCHANGED <<clock, config, threads, playback, marker_thread, sample_call, senderVars, workerVars, parentVars, controlVars>>
  /\ UNCHANGED <<args, relay>>

\* A stream comes back to the network.
UpstreamFound(info) ==
  /\ info \notin network
  /\ network' = network \cup {info}
  /\ UNCHANGED <<clock, config, threads, playback, marker_thread, sample_call, senderVars, workerVars, parentVars, controlVars>>
  /\ UNCHANGED <<args, relay, relay_streams>>

(* ----------------------- the relay's two threads ---------------------- *)

\* Relay.start runs Relay.run in a Thread of its own (`resolver`), while the
\* main thread broadcasts the controller's messages and runs stop()
\* (`main`).  `streams` is what the for loop of run has still to look at.
\* An iteration over active_streams.values() is kept as the size of the
\* dictionary when the iterator was made (`used`), its keys then (`view`)
\* and the last process it gave (`last`); `reached` and `joined` are the
\* processes a broadcast has put its message to and stop() has joined.
NewThreads ==
  [resolver |-> [pc |-> "test", streams |-> {}],
   main |-> [pc |-> "idle", used |-> 0, view |-> {}, last |-> 0,
             broadcasts |-> 0, began |-> {}, reached |-> {}, joined |-> {},
             exc |-> "none"]]

\* The relay is not followed thread by thread.
NoThreads == [NewThreads EXCEPT !.resolver.pc = "none", !.main.pc = "none"]

\* "while not self.is_stopped(): streams = resolver.results()".
RunTest ==
  /\ threads.resolver.pc = "test"
  /\ threads' = IF relay.stop_event
                  THEN [threads EXCEPT !.resolver.pc = "ended"]
                  ELSE [threads EXCEPT !.resolver.pc = "for",
                                       !.resolver.streams = results]
  /\ UNCHANGED <<clock, config, playback, marker_thread, sample_call, relayVars, senderVars, workerVars, parentVars, controlVars>>

\* One turn of "for stream in streams": a stream whose key is not in
\* active_streams gets a RelayStream, entered and started.
RunFor ==
  /\ threads.resolver.pc = "for"
  /\ IF threads.resolver.streams = {}
       THEN /\ threads' = [threads EXCEPT !.resolver.pc = "remove"]
            /\ UNCHANGED <<relay, relay_streams>>
       ELSE \E info \in threads.resolver.streams :
              LET started == new_streams({info}, relay.active_streams, relay_streams)
              IN /\ Len(started.procs) <= MaxSpawned
                 /\ relay_streams' = started.procs
                 /\ relay' = [relay EXCEPT !.active_streams = started.active_streams]
                 /\ threads' = [threads EXCEPT !.resolver.streams = @ \ {info}]
  /\ UNCHANGED <<clock, config, playback, marker_thread, sample_call, senderVars, workerVars, parentVars, controlVars>>
  /\ UNCHANGED <<args, network>>

\* self.remove_lost_streams().
RunRemove ==
  /\ threads.resolver.pc = "remove"
  /\ relay' = [relay EXCEPT !.active_streams = remove_lost_streams(@, relay_streams)]
  /\ threads' = [threads EXCEPT !.resolver.pc = "wait"]
  /\ UNCHANGED <<clock, config, playback, marker_thread, sample_call, senderVars, workerVars, parentVars, controlVars>>
  /\ UNCHANGED <<args, network, relay_streams>>

\* self.stop_event.wait(1) returns, after a second or when the event is set.
RunWait ==
  /\ threads.resolver.pc = "wait"
  /\ threads' = [threads EXCEPT !.resolver.pc = "test"]
  /\ UNCHANGED <<clock, config, playback, marker_thread, sample_call, relayVars, senderVars, workerVars, parentVars, controlVars>>

\* iter(self.active_streams.values()).
dict_iter(m) ==
  [m EXCEPT !.used = Cardinality(DOMAIN relay.active_streams),
            !.view = DOMAIN relay.active_streams, !.last = 0]

\* next() of that iterator raises RuntimeError when the dictionary has
\* changed size since the iterator was made; otherwise it gives the
\* entries in the order they were entered, which is the order the
\* processes were made in.
changed_size(m) == Cardinality(DOMAIN relay.active_streams) # m.used
Rest(m) == {id \in ActiveProcs : id > m.last}
dict_next(m) == CHOOSE id \in Rest(m) : \A other \in Rest(m) : id <= other

\* recv_from_controller has got a message: send_message_to_streams begins.
SendBegin ==
  /\ threads.main.pc = "idle"
  /\ threads.main.broadcasts < MaxBroadcasts
  /\ threads' = [threads EXCEPT !.main = [dict_iter(@) EXCEPT
                    !.pc = "send", !.broadcasts = @ + 1,
                    !.began = ActiveProcs, !.reached = {}]]
  /\ UNCHANGED <<clock, config, playback, marker_thread, sample_call, relayVars, senderVars, workerVars, parentVars, controlVars>>

\* One turn of "for stream in self.active_streams.values()": the message
\* is put to a process that is alive.  A RuntimeError leaves the task.
SendNext ==
  /\ threads.main.pc = "send"
  /\ threads' =
       IF changed_size(threads.main)
         THEN [threads EXCEPT !.main.pc = "failed", !.main.exc = "RuntimeError"]
       ELSE IF Rest(threads.main) = {}
         THEN [threads EXCEPT !.main.pc = "idle"]
       ELSE LET id == dict_next(threads.main) IN
         [threads EXCEPT !.main.last = id,
                         !.main.reached =
                            IF relay_streams[id].pc # "ended" THEN @ \cup {id}
                            ELSE @]
  /\ UNCHANGED <<clock, config, playback, marker_thread, sample_call, relayVars, senderVars, workerVars, parentVars, controlVars>>

\* Relay.stop(), called when the relay is interrupted or a task has ended:
\* the event is set, the empty string put on the relay's own queue, and the
\* first loop over the active streams begins.
StopBegin ==
  /\ threads.main.pc \in {"idle", "failed"}
  /\ relay' = [relay EXCEPT !.stop_event = TRUE,
                            !.recv_message_queue = Append(@, "")]
  /\ threads' = [threads EXCEPT !.main = [dict_iter(@) EXCEPT !.pc = "stop"]]
  /\ UNCHANGED <<clock, config, playback, marker_thread, sample_call, senderVars, workerVars, parentVars, controlVars>>
  /\ UNCHANGED <<args, network, relay_streams>>

\* One turn of the first loop of stop(): stream.stop() for a stream that is
\* not stopped.  After the last one the second loop begins.
StopNext ==
  /\ threads.main.pc = "stop"
  /\ IF changed_size(threads.main)
       THEN /\ threads' = [threads EXCEPT !.main.pc = "crashed",
                                          !.main.exc = "RuntimeError"]
            /\ UNCHANGED <<relay, relay_streams>>
     ELSE IF Rest(threads.main) = {}
       THEN /\ threads' = [threads EXCEPT !.main = [dict_iter(@) EXCEPT !.pc = "join"]]
            /\ UNCHANGED <<relay, relay_streams>>
     ELSE LET id == dict_next(threads.main) IN
       /\ threads' = [threads EXCEPT !.main.last = id]
       /\ relay_streams' = [relay_streams EXCEPT ![id].stop_event = TRUE]
       /\ relay' = IF relay_streams[id].stop_event THEN relay
                   ELSE [relay EXCEPT !.recv_message_queue = Append(@, "")]
  /\ UNCHANGED <<clock, config, playback, marker_thread, sample_call, senderVars, workerVars, parentVars, controlVars>>
  /\ UNCHANGED <<args, network>>

\* One turn of the second loop of stop(): stream.join() returns when the
\* process has ended.
JoinNext ==
  /\ threads.main.pc = "join"
  /\ IF changed_size(threads.main)
       THEN threads' = [threads EXCEPT !.main.pc = "crashed",
                                       !.main.exc = "RuntimeError"]
     ELSE IF Rest(threads.main) = {}
       THEN threads' = [threads EXCEPT !.main.pc = "stopped"]
     ELSE LET id == dict_next(threads.main) IN
       /\ relay_streams[id].pc = "ended"
       /\ threads' = [threads EXCEPT !.main.last = id,
                                     !.main.joined = @ \cup {id}]
  /\ UNCHANGED <<clock, config, playback, marker_thread, sample_call, relayVars, senderVars, workerVars, parentVars, controlVars>>

(* ------------------------ the sample generator ----------------------- *)

\* The integer-valued choices of --fn and --marker-fn.
Tags ==
  {"stream-id", "stream-seq", "counter", "counter+", "counter-mod-fs", "impulse"}

\* np.int8 holds -128..127.
int8_max == 127

\* A value a call returns, and an exception it raises.
return(value) == [value |-> value]
raised(result) == "exc" \in DOMAIN result

\* Python's a % b for a >= 0: ZeroDivisionError when b is zero.
mod(a, b) == IF b = 0 THEN [exc |-> "ZeroDivisionError"] ELSE return(a % b)

\* "self.functions[min(channel_idx, len(self.functions) - 1)]".
channel_fn(functions, channel_idx) ==
  functions[min(channel_idx, Len(functions) - 1) + 1]

\* BaseTestStream.generate_channel_data, without the sines.
generate_channel_data(self, sample_idx, channel_idx) ==
  LET fn == channel_fn(self.functions, channel_idx) IN
  CASE fn = "stream-id" -> return(self.stream_idx)
    [] fn = "stream-seq" -> return(self.stream_idx + channel_idx)
    [] fn = "counter" -> return(sample_idx)
    [] fn = "counter+" -> return((sample_idx * self.channel_count) + channel_idx)
    [] fn = "counter-mod-fs" -> mod(sample_idx, self.nominal_srate)
    [] fn = "impulse" ->
         LET m == mod(sample_idx, self.nominal_srate) IN
           IF raised(m) THEN m ELSE IF m.value = 0 THEN return(1) ELSE return(0)
    [] OTHER -> return(None)

\* np.array(sample, dtype): what one element becomes.  Small integers are
\* themselves in float32; str gives the decimal string, written [str |-> n];
\* an integer that np.int8 cannot hold raises OverflowError or wraps around,
\* depending on the numpy at hand (`wraps`).
np_array(value, dtype, wraps) ==
  CASE dtype = "string" -> [str |-> value]
    [] dtype = "int8" /\ value > int8_max ->
         IF wraps THEN return(value - 2 * (int8_max + 1))
         ELSE [exc |-> "OverflowError"]
    [] OTHER -> return(value)

\* BaseTestStream.generate_sample: the channels in order, then the array;
\* the first exception raised on the way leaves the call.
generate_sample(self, sample_idx, wraps) ==
  LET Channels == 1..self.channel_count
      sample == [c \in Channels |-> generate_channel_data(self, sample_idx, c - 1)]
      Raised == {c \in Channels : raised(sample[c])}
      array == [c \in Channels |-> np_array(sample[c].value, self.dtype, wraps)]
      Overflown == {c \in Channels : raised(array[c])}
  IN IF Raised # {} THEN sample[CHOOSE c \in Raised : \A d \in Raised : c <= d]
     ELSE IF Overflown # {}
       THEN array[CHOOSE c \in Overflown : \A d \in Overflown : c <= d]
     ELSE array

\* The test streams simulate makes: TestDataStream with --sample-rate and
\* --channel-format, TestMarkerStream with IRREGULAR_RATE and strings; the
\* channel count is at least the number of functions (simulate.py).
RECURSIVE FunctionLists(_)
FunctionLists(n) ==
  IF n = 0 THEN {} ELSE [1..n -> Tags] \cup FunctionLists(n - 1)

TestStreams ==
  {self \in [stream_idx : 0..MaxStreamIdx,
             functions : FunctionLists(MaxChannels),
             channel_count : 1..MaxChannels,
             nominal_srate : {IRREGULAR_RATE} \cup 1..MaxSrate,
             dtype : {"int8", "float32", "string"}] :
     /\ Len(self.functions) <= self.channel_count
     /\ self.dtype = "string" <=> self.nominal_srate = IRREGULAR_RATE}

SampleIdxs == 0..MaxSampleIdx \cup {int8_max, int8_max + 1}

\* No call is followed.
NoCall == [pc |-> "none"]

\* The loop body calls generate_sample(elapsed_time, sample_count).
GenerateSample ==
  /\ sample_call.pc = "call"
  /\ \E wraps \in BOOLEAN :
       sample_call' =
         [sample_call EXCEPT
            !.pc = "returned",
            !.sample = generate_sample(sample_call.self, sample_call.sample_idx, wraps)]
  /\ UNCHANGED <<clock, config, threads, playback, marker_thread, relayVars, senderVars, workerVars, parentVars, controlVars>>

(* ------------------- the receiver threads, alone --------------------- *)

\* A ControlReceiver or a MonitorReceiver after __init__: no inlet, stop
\* event clear.  `kind` tells the two apart, `json` is the MonitorReceiver's
\* option; `closed_by` is the thread that closed the inlet; `pulls` counts
\* the samples handled.
NewThread(kind, json) ==
  [kind |-> kind, json |-> json, pc |-> "resolve", stop_event |-> FALSE,
   inlet |-> "none", closed_by |-> "none", pulls |-> 0, exc |-> "none"]

\* No such thread is followed.
NoThread == [NewThread("control", FALSE) EXCEPT !.pc = "none"]

\* A pull_sample() that waits without a timeout.
pull_sample_blocks == FALSE

\* inlet.pull_sample(timeout) returns after its timeout when no sample has
\* come: 1 s in ControlReceiver.run, 0.5 s in MonitorReceiver.run.
pull_sample_times_out == TRUE

\* "while not sender_info and not self.is_stopped()": the test of the
\* resolve loop, sender_info still being empty.
ThreadResolveTest ==
  /\ marker_thread.pc = "resolve"
  /\ marker_thread' =
       IF marker_thread.stop_event
         \* "if not sender_info: return"
         THEN [marker_thread EXCEPT !.pc = "ended"]
         ELSE [marker_thread EXCEPT !.pc = "resolving"]
  /\ UNCHANGED <<clock, config, threads, playback, sample_call, relayVars, senderVars, workerVars, parentVars, controlVars>>

\* resolve_bypred(pred, timeout=0.5) returns: nothing, and the loop tests
\* again, or the stream, and the inlet is opened before the try statement.
ThreadResolve(found) ==
  /\ marker_thread.pc = "resolving"
  /\ marker_thread' =
       IF found THEN [marker_thread EXCEPT !.pc = "loop", !.inlet = "open"]
       ELSE [marker_thread EXCEPT !.pc = "resolve"]
  /\ UNCHANGED <<clock, config, threads, playback, sample_call, relayVars, senderVars, workerVars, parentVars, controlVars>>

\* "while not self.is_stopped()" in the try statement.
ThreadLoopTest ==
  /\ marker_thread.pc = "loop"
  /\ marker_thread' =
       IF marker_thread.stop_event
         THEN [marker_thread EXCEPT !.pc = "finally"]
         ELSE [marker_thread EXCEPT !.pc = "pulling"]
  /\ UNCHANGED <<clock, config, threads, playback, sample_call, relayVars, senderVars, workerVars, parentVars, controlVars>>

\* What a pull can give: no sample within the timeout; a sample that is
\* handled and leaves the thread running; a state change to STOP (control
\* only), after which the receiver stops itself; a payload on which the
\* handling raises (see PullMalformed; a MonitorReceiver decodes its
\* payload in JSON mode only); the loss of the stream.
Pulls == {"timeout", "message", "STOP", "raises", "LostError"}

\* inlet.pull_sample(timeout) returns and the body of the loop runs.
ThreadPull(outcome) ==
  /\ marker_thread.pc = "pulling"
  /\ outcome = "timeout" => pull_sample_times_out
  /\ outcome = "STOP" => marker_thread.kind = "control"
  /\ outcome = "raises" => marker_thread.kind = "control" \/ marker_thread.json
  /\ outcome \in {"message", "STOP"} => marker_thread.pulls < MaxPulls
  /\ marker_thread' =
       CASE outcome = "timeout" -> [marker_thread EXCEPT !.pc = "loop"]
         [] outcome = "message" ->
              [marker_thread EXCEPT !.pc = "loop", !.pulls = @ + 1]
         [] outcome = "STOP" ->
              [marker_thread EXCEPT !.pc = "loop", !.pulls = @ + 1,
                                    !.stop_event = TRUE]
         [] outcome = "raises" ->
              [marker_thread EXCEPT !.pc = "finally", !.exc = "Exception"]
         [] OTHER ->
              [marker_thread EXCEPT !.pc = "finally", !.exc = "LostError"]
  /\ UNCHANGED <<clock, config, threads, playback, sample_call, relayVars, senderVars, workerVars, parentVars, controlVars>>

\* The finally clause: stop() and cleanup(), which closes the inlet.
ThreadFinally ==
  /\ marker_thread.pc = "finally"
  /\ marker_thread' =
       [marker_thread EXCEPT
          !.pc = "ended", !.stop_event = TRUE,
          !.inlet = IF @ = "open" THEN "closed" ELSE @,
          !.closed_by = IF marker_thread.inlet = "open" THEN "thread" ELSE @]
  /\ UNCHANGED <<clock, config, threads, playback, sample_call, relayVars, senderVars, workerVars, parentVars, controlVars>>

\* The steps of the thread itself.
ThreadRun ==
  \/ ThreadResolveTest
  \/ \E found \in BOOLEAN : ThreadResolve(found)
  \/ ThreadLoopTest
  \/ \E outcome \in Pulls : ThreadPull(outcome)
  \/ ThreadFinally

\* BaseStreamThread.stop(), called by the owner of the thread: it sets the
\* event and touches nothing else.
ThreadStop ==
  /\ marker_thread.pc \notin {"none", "ended"}
  /\ ~marker_thread.stop_event
  /\ marker_thread' = [marker_thread EXCEPT !.stop_event = TRUE]
  /\ UNCHANGED <<clock, config, threads, playback, sample_call, relayVars, senderVars, workerVars, parentVars, controlVars>>

(* ----------------------------- playback ------------------------------ *)

\* The HDF5 table "stream" of nrows rows: row k has index k and, as its
\* vector, the number k.  pd.read_hdf(store, "stream", start, stop) gives
\* the rows from start up to but not including stop, as far as they exist;
\* stop = None means the end of the table.
read_hdf(nrows, start, stop) ==
  LET last == IF stop = None THEN nrows ELSE min(stop, nrows)
      count == IF last > start THEN last - start ELSE 0
  IN [k \in 1..count |-> start + k - 1]

\* sample_generator begins at i = 0; a generator that begins at i = 1.
first_row_skipped(df) == 1
first_row(df) == 0

\* A chunk that runs on to the end of the requested rows.
read_chunk_to_end(nrows, current, chunksize, last) ==
  read_hdf(nrows, current, last)

\* The iterator of read_hdf(..., iterator=True, chunksize): the next chunk,
\* of at most chunksize rows, from `current` on.
read_chunk(nrows, current, chunksize, last) ==
  read_hdf(nrows, current, min(current + chunksize, last))

\* stream_generator before its first next().
NewGenerator == [pc |-> "start", df |-> <<>>, i |-> 0, current |-> 0]

\* No playback runs.
NoPlayback ==
  [pc |-> "none", nrows |-> 0, start |-> 0, stop |-> None, loop |-> FALSE,
   read_chunk_size |-> 0, generator |-> NewGenerator, sample |-> None,
   pushed |-> <<>>, stop_event |-> FALSE, exc |-> "none"]

\* next(generator) on stream_generator(path, start, stop, loop,
\* read_chunk_size) in state g: the state after it and what it yields,
\* raises, or "spin" when it never returns.
RECURSIVE next(_, _)
next(p, g) ==
  LET stop == IF p.stop = None THEN None ELSE min(p.nrows, p.stop)
      req_nrows == IF p.stop = None THEN p.nrows - p.start ELSE stop - p.start
      last == IF stop = None THEN p.nrows ELSE stop
  IN
  CASE g.pc = "start" ->
         IF p.start >= p.nrows
           THEN [generator |-> [g EXCEPT !.pc = "done"], raises |-> "ValueError"]
         ELSE IF p.read_chunk_size = 0 \/ req_nrows <= p.read_chunk_size
           THEN LET df == read_hdf(p.nrows, p.start, stop) IN
                  next(p, [g EXCEPT !.pc = "all", !.df = df, !.i = first_row(df)])
         ELSE next(p, [g EXCEPT !.pc = "chunks", !.df = <<>>, !.i = 0,
                                !.current = p.start])
    [] g.pc = "all" ->
         IF g.i < Len(g.df)
           THEN [generator |-> [g EXCEPT !.i = @ + 1], yields |-> g.df[g.i + 1]]
         ELSE IF ~p.loop
           THEN [generator |-> [g EXCEPT !.pc = "done"], raises |-> "StopIteration"]
         ELSE IF first_row(g.df) >= Len(g.df)
           THEN [generator |-> g, spins |-> TRUE]
         ELSE next(p, [g EXCEPT !.i = first_row(g.df)])
    [] g.pc = "chunks" ->
         IF g.i < Len(g.df)
           THEN [generator |-> [g EXCEPT !.i = @ + 1], yields |-> g.df[g.i + 1]]
         ELSE IF g.current < last
           THEN LET chunk == read_chunk(p.nrows, g.current, p.read_chunk_size, last)
                IN next(p, [g EXCEPT !.df = chunk, !.i = first_row(chunk),
                                     !.current = min(g.current + p.read_chunk_size, last)])
         ELSE IF ~p.loop
           THEN [generator |-> [g EXCEPT !.pc = "done"], raises |-> "StopIteration"]
         ELSE next(p, [g EXCEPT !.df = <<>>, !.i = 0, !.current = p.start])
    [] OTHER -> [generator |-> g, raises |-> "StopIteration"]

\* GeneratorStream.run up to the try statement: the outlet is made and the
\* first sample is pulled from the generator.  An exception of that
\* next() ends the process outside the try statement.
PlaybackFirst ==
  /\ playback.pc = "first"
  /\ LET n == next(playback, playback.generator) IN
       /\ "spins" \notin DOMAIN n
       /\ playback' =
            IF "yields" \in DOMAIN n
              THEN [playback EXCEPT !.pc = "loop", !.generator = n.generator,
                                    !.sample = n.yields]
              ELSE [playback EXCEPT !.pc = "ended", !.generator = n.generator,
                                    !.exc = n.raises]
  /\ UNCHANGED <<clock, config, threads, marker_thread, sample_call, relayVars, senderVars, workerVars, parentVars, controlVars>>

\* One turn of the loop of GeneratorStream.run: check_continue, push the
\* sample held, pull the next one.  StopIteration is no KeyboardInterrupt:
\* it leaves the loop through the finally clause.
PlaybackPush ==
  /\ playback.pc = "loop"
  /\ IF playback.stop_event
       THEN playback' = [playback EXCEPT !.pc = "finally"]
       ELSE LET n == next(playback, playback.generator) IN
              /\ Len(playback.pushed) < MaxPlayed
              /\ "spins" \notin DOMAIN n
              /\ playback' =
                   IF "yields" \in DOMAIN n
                     THEN [playback EXCEPT !.pushed = Append(@, playback.sample),
                                           !.generator = n.generator,
                                           !.sample = n.yields]
                     ELSE [playback EXCEPT !.pushed = Append(@, playback.sample),
                                           !.generator = n.generator,
                                           !.pc = "finally", !.exc = n.raises]
  /\ UNCHANGED <<clock, config, threads, marker_thread, sample_call, relayVars, senderVars, workerVars, parentVars, controlVars>>

\* The finally clause: stop().
PlaybackFinally ==
  /\ playback.pc = "finally"
  /\ playback' = [playback EXCEPT !.pc = "ended", !.stop_event = TRUE]
  /\ UNCHANGED <<clock, config, threads, marker_thread, sample_call, relayVars, senderVars, workerVars, parentVars, controlVars>>

\* playback.py main: the stream is stopped from outside (KeyboardInterrupt).
PlaybackStop ==
  /\ playback.pc \in {"first", "loop"}
  /\ ~playback.stop_event
  /\ playback' = [playback EXCEPT !.stop_event = TRUE]
  /\ UNCHANGED <<clock, config, threads, marker_thread, sample_call, relayVars, senderVars, workerVars, parentVars, controlVars>>

(* ------------------------ the control sender -------------------------- *)

\* ControlSender.__init__ and run(): the outlet is open, the prompt waits.
NewSender == [stopped |-> FALSE, latency |-> Latency]

\* What can be entered at the prompt: the three commands and anything else.
Commands == {"start", "pause", "stop", "other"}

state_of(command) ==
  CASE command = "start" -> START
    [] command = "pause" -> PAUSE
    [] command = "stop" -> STOP
    [] OTHER -> None

\* ControlSender.cli, one turn of its loop: a command pushes one sample that
\* holds the state only, stamped local_clock() + latency; "stop" also stops
\* the sender; anything else is reported as undefined and pushes nothing.
cli(command) ==
  /\ ~sender.stopped
  /\ Len(typed) < MaxTyped
  /\ typed' = Append(typed, command)
  /\ wire' = IF state_of(command) = None THEN wire
             ELSE Append(wire, [state |-> state_of(command),
                                time_stamp |-> clock + sender.latency])
  /\ sender' = [sender EXCEPT !.stopped = command = "stop"]
  /\ UNCHANGED <<clock, config, threads, playback, marker_thread, sample_call, relayVars, workerVars, parentVars, controlVars>>
  /\ UNCHANGED <<pulled, forwarded>>

(* ----------------------- the control receiver ------------------------- *)

NoMessage == Message(None, None, None)

\* What pull_sample() returns after parse_message(): a state, the time stamp
\* of the sample and, on a START, the latency field of the wire schema.
Stamps == 1..MaxStamp
WireSamples ==
  {Message(state, time_stamp, IF state = START THEN Latency ELSE Absent) :
     state \in ControlStates, time_stamp \in Stamps}

\* ControlReceiver.__init__ and start().
NewReceiver(started) ==
  [pc |-> IF started THEN "run" ELSE "ended",
   state |-> STOP, time_stamp |-> 0, stopped |-> FALSE, exc |-> "none"]

\* A receiver that notifies of every message.
notifies_always(message) == TRUE

\* "Only notify on state changes."
notifies(message) == message.state # receiver.state

\* The body of the receiver's loop for a parsed message: on a state change
\* update state and time stamp, put the message on the queue and, when it is
\* a STOP, stop the thread; otherwise do nothing.
run(message) ==
  /\ receiver.pc = "run"
  /\ ~receiver.stopped
  /\ notified < MaxMessages
  /\ Len(control_queue) < MaxQueue
  /\ IF notifies(message)
       THEN /\ receiver' = [receiver EXCEPT
                              !.state = message.state,
                              !.time_stamp = message.time_stamp,
                              !.stopped = message.state = STOP]
            /\ control_queue' = Append(control_queue, message)
            /\ notified' = notified + 1
       ELSE UNCHANGED <<receiver, control_queue, notified>>

\* One turn of the receiver loop with a sample pulled from a control stream
\* that follows the wire schema.  The sender stamps its samples
\* local_clock() + latency and the inlet is opened with proc_ALL, which
\* keeps the time stamps it hands out from going back.
ReceiverPull(message) ==
  /\ message.time_stamp >= receiver.time_stamp
  /\ run(message)
  /\ UNCHANGED <<clock, config, threads, playback, marker_thread, sample_call, relayVars, senderVars, workerVars, parentVars>>

\* A parse that leaves the time stamp out.
parse_message_unstamped(sample) == Message(sample.state, Absent, Absent)

\* BaseMarkerStream.parse_message: the decoded payload, with the time stamp
\* of the sample attached when it is truthy.
parse_message(sample) ==
  Message(sample.state,
          IF Truthy(sample.time_stamp) THEN sample.time_stamp ELSE Absent,
          Absent)

\* One turn of the receiver loop with the next sample of the sender's
\* stream pulled.
PullSample ==
  /\ wire # <<>>
  /\ LET message == parse_message(Head(wire)) IN
       /\ run(message)
       /\ pulled' = Append(pulled, message)
       /\ forwarded' = IF notifies(message) THEN Append(forwarded, message)
                       ELSE forwarded
  /\ wire' = Tail(wire)
  /\ UNCHANGED <<clock, config, threads, playback, marker_thread, sample_call, relayVars, workerVars, parentVars, sender, typed>>

\* Payloads that ControlSender.cli never sends: the empty string, text that
\* is no JSON, and a JSON object without the key 'state'.
Malformed == {"", "{", "{}"}

\* json.loads on those payloads: the keys of the object decoded, or the
\* exception raised.
json_loads(text) ==
  IF text = "{}" THEN [keys |-> {}] ELSE [exc |-> "JSONDecodeError"]

\* One turn of the receiver loop with a sample pulled whose payload some
\* other sender has pushed.  parse_message returns None for the empty
\* string and the loop goes on; json.loads raises on text that is no JSON;
\* an object decoded gets the time stamp and is then asked for
\* message['state'].  No exception but LostError is caught: the finally
\* clause stops the receiver and the thread ends.
PullMalformed(text) ==
  /\ receiver.pc = "run"
  /\ ~receiver.stopped
  /\ receiver' =
       IF text = "" THEN receiver
       ELSE [receiver EXCEPT
               !.stopped = TRUE, !.pc = "ended",
               !.exc = IF "exc" \in DOMAIN json_loads(text)
                         THEN json_loads(text).exc
                       ELSE IF "state" \notin json_loads(text).keys
                         THEN "KeyError" ELSE "none"]
  /\ UNCHANGED <<clock, config, threads, playback, marker_thread, sample_call, relayVars, senderVars, workerVars, parentVars>>
  /\ UNCHANGED <<control_queue, notified>>

\* The sender has ended and its outlet is gone: the inlet, opened with
\* recover=False, raises LostError once the samples sent have been pulled,
\* and the finally clause stops the receiver.
ReceiverLost ==
  /\ receiver.pc = "run"
  /\ ~receiver.stopped
  /\ sender.stopped
  /\ wire = <<>>
  /\ receiver' = [receiver EXCEPT !.stopped = TRUE]
  /\ UNCHANGED <<clock, config, threads, playback, marker_thread, sample_call, relayVars, senderVars, workerVars, parentVars>>
  /\ UNCHANGED <<control_queue, notified>>

\* The loop test finds the stop event set: stop(), cleanup(), end of thread.
ReceiverEnd ==
  /\ receiver.pc = "run"
  /\ receiver.stopped
  /\ receiver' = [receiver EXCEPT !.pc = "ended"]
  /\ UNCHANGED <<clock, config, threads, playback, marker_thread, sample_call, relayVars, senderVars, workerVars, parentVars, control_queue, notified>>

(* ------------------------- the parent: Simulate ----------------------- *)

\* Simulate.start() after the sub-processes are started.
NewParent(controller) ==
  [main |-> IF controller THEN "handle" ELSE "send_start",
   rs |-> IF controller THEN "test" ELSE "idle",
   rc |-> IF controller THEN "wait" ELSE "idle",
   running |-> "none",
   message |-> NoMessage,
   i |-> 1,
   stop |-> "none",
   stop_event |-> FALSE]

\* start(): without a controller the parent sends the START itself.
SendStart ==
  /\ parent.main = "send_start"
  /\ parent' = [parent EXCEPT
                  !.main = "sending",
                  !.message = Message(START,
                                      IF config.sync THEN clock + Latency ELSE None,
                                      Latency),
                  !.i = 1]
  /\ UNCHANGED <<clock, config, threads, playback, marker_thread, sample_call, relayVars, senderVars, workerVars, parent_queue, taken, controlVars>>

\* A broadcast that puts the message at the head of each mailbox.
send_message_to_streams_first ==
  /\ parent.main = "sending" \/ parent.rc = "sending"
  /\ mailbox' = IF is_alive(parent.i)
                  THEN [mailbox EXCEPT ![parent.i] = <<parent.message>> \o @]
                  ELSE mailbox
  /\ parent' =
       IF parent.i < NumStreams THEN [parent EXCEPT !.i = @ + 1]
       ELSE IF parent.main = "sending"
         THEN [parent EXCEPT !.main = "handle", !.rs = "test",
                             !.message = NoMessage, !.i = 1]
         ELSE [parent EXCEPT !.rc = "wait", !.running = "none",
                             !.message = NoMessage, !.i = 1]
  /\ UNCHANGED <<clock, config, threads, playback, marker_thread, sample_call, relayVars, senderVars, stream, stop_event, outlet, handled, barrier, sentinels>>
  /\ UNCHANGED <<parent_queue, taken, controlVars>>

\* send_message_to_streams: one turn of its for loop.  It is called by
\* start(), which then runs handle_messages(), and by recv_from_controller(),
\* which then waits for the next message.
send_message_to_streams ==
  /\ parent.main = "sending" \/ parent.rc = "sending"
  /\ mailbox' = IF is_alive(parent.i)
                  THEN [mailbox EXCEPT ![parent.i] = Append(@, parent.message)]
                  ELSE mailbox
  /\ parent' =
       IF parent.i < NumStreams THEN [parent EXCEPT !.i = @ + 1]
       ELSE IF parent.main = "sending"
         THEN [parent EXCEPT !.main = "handle", !.rs = "test",
                             !.message = NoMessage, !.i = 1]
         ELSE [parent EXCEPT !.rc = "wait", !.running = "none",
                             !.message = NoMessage, !.i = 1]
  /\ UNCHANGED <<clock, config, threads, playback, marker_thread, sample_call, relayVars, senderVars, stream, stop_event, outlet, handled, barrier, sentinels>>
  /\ UNCHANGED <<parent_queue, taken, controlVars>>

streams_stopped == \A w \in Streams : stop_event[w]

\* Simulate.stop() begins: set the parent's own event, then go through the
\* streams.  stop() makes blocking calls only, so the task that calls it
\* keeps the event loop until it returns.
begin_stop(p, task) ==
  [p EXCEPT !.running = task, !.stop = "streams", !.i = 1, !.stop_event = TRUE]

\* recv_from_streams: the while test; get() runs in a thread.
RecvFromStreamsTest ==
  /\ parent.main = "handle"
  /\ parent.rs = "test"
  /\ parent.running = "none"
  /\ parent' = IF ~streams_stopped \/ parent_queue # <<>>
                 THEN [parent EXCEPT !.rs = "get"]
                 ELSE begin_stop([parent EXCEPT !.rs = "stop"], "rs")
  /\ UNCHANGED <<clock, config, threads, playback, marker_thread, sample_call, relayVars, senderVars, workerVars, parent_queue, taken, controlVars>>

RecvFromStreamsGet ==
  /\ parent.rs = "get"
  /\ parent_queue # <<>>
  /\ parent_queue' = Tail(parent_queue)
  /\ parent' = [parent EXCEPT !.rs = "test"]
  /\ UNCHANGED <<clock, config, threads, playback, marker_thread, sample_call, relayVars, senderVars, workerVars, taken, controlVars>>

\* recv_from_controller: get_message() returns a message, which the task
\* broadcasts.  (A get_message() that times out changes nothing.)
RecvFromController ==
  /\ parent.main = "handle"
  /\ parent.rc = "wait"
  /\ parent.running = "none"
  /\ control_queue # <<>>
  /\ parent' = [parent EXCEPT !.rc = "sending", !.running = "rc",
                              !.message = Head(control_queue), !.i = 1]
  /\ control_queue' = Tail(control_queue)
  /\ taken' = Append(taken, Head(control_queue))
  /\ UNCHANGED <<clock, config, threads, playback, marker_thread, sample_call, relayVars, senderVars, workerVars, parent_queue, receiver, notified>>

\* recv_from_controller: the while test fails; the finally clause calls stop().
RecvFromControllerEnd ==
  /\ parent.main = "handle"
  /\ parent.rc = "wait"
  /\ parent.running = "none"
  /\ receiver.stopped
  /\ control_queue = <<>>
  /\ parent' = begin_stop([parent EXCEPT !.rc = "stop"], "rc")
  /\ UNCHANGED <<clock, config, threads, playback, marker_thread, sample_call, relayVars, senderVars, workerVars, parent_queue, taken, controlVars>>

\* Simulate.stop(), first loop: stream.stop() for a stream that is not
\* stopped (BaseStreamProcess.stop sets the event and puts the sentinel).
StopStream ==
  /\ parent.stop = "streams"
  /\ parent.i <= NumStreams
  /\ parent' = [parent EXCEPT !.i = @ + 1]
  /\ IF stop_event[parent.i]
       THEN UNCHANGED <<stop_event, parent_queue, sentinels>>
       ELSE /\ stop_event' = [stop_event EXCEPT ![parent.i] = TRUE]
            /\ parent_queue' = Append(parent_queue, Sentinel)
            /\ sentinels' = [sentinels EXCEPT ![parent.i] = @ + 1]
  /\ UNCHANGED <<clock, config, threads, playback, marker_thread, sample_call, relayVars, senderVars, stream, mailbox, outlet, handled, barrier>>
  /\ UNCHANGED <<taken, controlVars>>

\* Simulate.stop(), second loop: stream.join() for every stream; then
\* controller.stop() for a controller that is not stopped.
StopJoin ==
  /\ parent.stop = "streams"
  /\ parent.i > NumStreams
  /\ \A w \in Streams : ~is_alive(w)
  /\ parent' = [parent EXCEPT
                  !.stop = IF config.controller /\ ~receiver.stopped
                             THEN "controller" ELSE "return",
                  !.i = 1]
  /\ receiver' = IF config.controller
                   THEN [receiver EXCEPT !.stopped = TRUE]
                   ELSE receiver
  /\ UNCHANGED <<clock, config, threads, playback, marker_thread, sample_call, relayVars, senderVars, workerVars, parent_queue, taken, control_queue, notified>>

\* Simulate.stop(), end: controller.join() for the controller it has just
\* stopped; the task that called stop() is finished.
StopEnd ==
  /\ parent.stop \in {"controller", "return"}
  /\ parent.stop = "controller" => receiver.pc = "ended"
  /\ parent' = [parent EXCEPT
                  !.stop = "none", !.running = "none",
                  !.rs = IF parent.running = "rs" THEN "done" ELSE @,
                  !.rc = IF parent.running = "rc" THEN "done" ELSE @]
  /\ UNCHANGED <<clock, config, threads, playback, marker_thread, sample_call, relayVars, senderVars, workerVars, parent_queue, taken, controlVars>>

\* start() after handle_messages(): join the streams and the controller.
Join ==
  /\ parent.main = "handle"
  /\ parent.rs = "done"
  /\ parent.rc \in {"done", "idle"}
  /\ \A w \in Streams : ~is_alive(w)
  /\ config.controller => receiver.pc = "ended"
  /\ parent' = [parent EXCEPT !.main = "done"]
  /\ UNCHANGED <<clock, config, threads, playback, marker_thread, sample_call, relayVars, senderVars, workerVars, parent_queue, taken, controlVars>>

(* --------------------------- specification ---------------------------- *)

\* The command lines: with an external controller, or with the parent's own
\* START (--sync or --no-sync) and the two caps.
Configs ==
  [controller : {TRUE}, sync : {TRUE}, max_samples : {None}, max_time : {None}]
  \cup
  [controller : {FALSE}, sync : BOOLEAN,
   max_samples : {None} \cup 0..MaxSamples, max_time : {None, Delta}]

Init ==
  /\ clock = 1
  /\ config \in Configs
  /\ stream = [w \in Streams |-> NewStream]
  /\ mailbox = [w \in Streams |-> <<>>]
  /\ stop_event = [w \in Streams |-> FALSE]
  /\ outlet = [w \in Streams |-> <<>>]
  /\ handled = [w \in Streams |-> <<>>]
  /\ barrier = 0
  /\ sentinels = [w \in Streams |-> 0]
  /\ parent_queue = <<>>
  /\ parent = NewParent(config.controller)
  /\ receiver = NewReceiver(config.controller)
  /\ control_queue = <<>>
  /\ notified = 0
  /\ taken = <<>>
  /\ sender = NewSender
  /\ wire = <<>>
  /\ typed = <<>>
  /\ pulled = <<>>
  /\ forwarded = <<>>
  /\ args = [pred |-> <<>>, non_local |-> FALSE, output |-> TRUE,
             monitor |-> TRUE, re_encode_timestamps |-> FALSE]
  /\ relay = NewRelay
  /\ network = {}
  /\ relay_streams = <<>>
  /\ playback = NoPlayback
  /\ marker_thread = NoThread
  /\ sample_call = NoCall
  /\ threads = NoThreads

Worker(w) ==
  \/ CreateOutlet(w)
  \/ BarrierWait(w)
  \/ IsStopped(w)
  \/ Iterate(w)
  \/ FinallyStop(w)
  \/ FinallySet(w)
  \/ FinallyPut(w)

Receiver ==
  \/ \E message \in WireSamples : ReceiverPull(message)
  \/ ReceiverEnd

Parent ==
  \/ SendStart
  \/ send_message_to_streams
  \/ RecvFromStreamsTest
  \/ RecvFromStreamsGet
  \/ RecvFromController
  \/ RecvFromControllerEnd
  \/ StopStream
  \/ StopJoin
  \/ StopEnd
  \/ Join

Next ==
  \/ Tick
  \/ \E w \in Streams : Worker(w)
  \/ Receiver
  \/ Parent

Spec == Init /\ [][Next]_vars

\* The simulation when the outlet of a worker may fail to be made.
NextFault ==
  \/ Next
  \/ \E w \in Streams : CreateOutletFails(w)

SpecFault == Init /\ [][NextFault]_vars

(* ------------- a control stream that starts, then stops --------------- *)

\* The control sender publishes START and later STOP, each stamped
\* local_clock() + latency; the STOP may lie one tick further ahead than the
\* time stamps of the general control stream.
StartStopSamples ==
  {Message(state, time_stamp, IF state = START THEN Latency ELSE Absent) :
     state \in {START, STOP}, time_stamp \in 1..(MaxStamp + 1)}

ReceiverStartStop ==
  \/ \E message \in StartStopSamples : ReceiverPull(message)
  \/ ReceiverEnd

NextStartStop ==
  \/ Tick
  \/ \E w \in Streams : Worker(w)
  \/ ReceiverStartStop
  \/ Parent

SpecStartStop == Init /\ [][NextStartStop]_vars

(* --------------- the control stream of the control sender ------------- *)

\* simulate ... external <control_name>, with the control sender of this
\* package publishing the stream the receiver has subscribed to.
InitSender ==
  /\ Init
  /\ config.controller

ReceiverSender ==
  \/ PullSample
  \/ ReceiverLost
  \/ ReceiverEnd

ParentExternal ==
  \/ send_message_to_streams
  \/ RecvFromStreamsTest
  \/ RecvFromStreamsGet
  \/ RecvFromController
  \/ RecvFromControllerEnd
  \/ StopStream
  \/ StopJoin
  \/ StopEnd
  \/ Join

NextSender ==
  \/ Tick
  \/ \E command \in Commands : cli(command)
  \/ \E w \in Streams : Worker(w)
  \/ ReceiverSender
  \/ ParentExternal

SpecSender == InitSender /\ [][NextSender]_vars

\* The control stream carries payloads of another sender as well.
NextPayload ==
  \/ NextSender
  \/ \E text \in Malformed : PullMalformed(text)

SpecPayload == InitSender /\ [][NextPayload]_vars

(* ----------------------- the relay on its own -------------------------- *)

\* The predicates given with --pred: none, one condition, two conditions
\* joined by `or`, and the same in parentheses.
UserPreds ==
  {<<>>,
   <<"type='EEG'">>,
   <<"name='a'", "or", "type='EEG'">>,
   <<"type='EEG'", "or", "type='monitor'">>,
   <<"(", "name='a'", "or", "type='EEG'", ")">>}

Names == {<<"a">>, <<RELAY, "a">>, <<MONITOR, "a">>}
Types == {"EEG", "control", "Markers", "monitor"}
Infos == [name : Names, type : Types, hostname : Hostnames]

\* No simulation runs, no control stream exists.
SimulateIdle ==
  /\ clock = 1
  /\ config = [controller |-> FALSE, sync |-> TRUE,
               max_samples |-> None, max_time |-> None]
  /\ stream = [w \in Streams |-> NewStream]
  /\ mailbox = [w \in Streams |-> <<>>]
  /\ stop_event = [w \in Streams |-> FALSE]
  /\ outlet = [w \in Streams |-> <<>>]
  /\ handled = [w \in Streams |-> <<>>]
  /\ barrier = 0
  /\ sentinels = [w \in Streams |-> 0]
  /\ parent_queue = <<>>
  /\ parent = NewParent(FALSE)
  /\ receiver = NewReceiver(FALSE)
  /\ control_queue = <<>>
  /\ notified = 0
  /\ taken = <<>>
  /\ sender = NewSender
  /\ wire = <<>>
  /\ typed = <<>>
  /\ pulled = <<>>
  /\ forwarded = <<>>

\* A data stream of this machine that no relay has made.
Upstream == [name |-> <<"a">>, type |-> "EEG", hostname |-> Here]

\* relay started with some --pred and --non-local and the other options at
\* their defaults, while that stream and one more, of whatever name, are on
\* the network.
InitRelay ==
  /\ SimulateIdle
  /\ args \in [pred : UserPreds, non_local : BOOLEAN, output : {TRUE},
               monitor : {TRUE}, re_encode_timestamps : {FALSE}]
  /\ relay = NewRelay
  /\ network \in {{Upstream, info} : info \in Infos}
  /\ relay_streams = <<>>
  /\ playback = NoPlayback
  /\ marker_thread = NoThread
  /\ sample_call = NoCall
  /\ threads = NoThreads

NextRelay ==
  \/ main
  \/ RelayRun
  \/ \E id \in DOMAIN relay_streams : RelayResolve(id)
  \/ \E id \in DOMAIN relay_streams : RelayOpen(id)

SpecRelay == InitRelay /\ [][NextRelay]_vars

(* ----------------- the relay and the streams it relays ---------------- *)

\* The streams that come and go while the relay runs.
Upstreams ==
  {Upstream, [name |-> <<"b">>, type |-> "EEG", hostname |-> Here]}

\* relay started with no --pred and any of --output and --monitor.
InitSupervisor ==
  /\ SimulateIdle
  /\ args \in [pred : {<<>>}, non_local : {FALSE}, output : BOOLEAN,
               monitor : BOOLEAN, re_encode_timestamps : {FALSE}]
  /\ relay = NewRelay
  /\ network \in (SUBSET Upstreams) \ {{}}
  /\ relay_streams = <<>>
  /\ playback = NoPlayback
  /\ marker_thread = NoThread
  /\ sample_call = NoCall
  /\ threads = NoThreads

\* Streams come and go; the ones that stay are silent.
Network ==
  \/ \E info \in Upstreams : UpstreamLost(info)
  \/ \E info \in Upstreams : UpstreamFound(info)

NextSupervisor ==
  \/ main
  \/ RelayRun
  \/ RelayRecvFromStreams
  \/ RelayStop
  \/ RelayJoin
  \/ \E id \in DOMAIN relay_streams : RelayStream(id)
  \/ Network

SpecSupervisor == InitSupervisor /\ [][NextSupervisor]_vars

(* -------------------- the relay, thread by thread -------------------- *)

\* relay started with --control-name, no --pred and any of --output and
\* --monitor; main() has made the Relay and start() its resolver thread.
\* The streams on the network may leave it; none comes back.
InitThreads ==
  /\ SimulateIdle
  /\ args \in [pred : {<<>>}, non_local : {FALSE}, output : BOOLEAN,
               monitor : BOOLEAN, re_encode_timestamps : {FALSE}]
  /\ relay = [NewRelay EXCEPT !.pc = "run", !.pred = compose(<<>>, FALSE)]
  /\ network \in (SUBSET Upstreams) \ {{}}
  /\ relay_streams = <<>>
  /\ playback = NoPlayback
  /\ marker_thread = NoThread
  /\ sample_call = NoCall
  /\ threads = NewThreads

NextThreads ==
  \/ RunTest
  \/ RunFor
  \/ RunRemove
  \/ RunWait
  \/ SendBegin
  \/ SendNext
  \/ StopBegin
  \/ StopNext
  \/ JoinNext
  \/ \E id \in DOMAIN relay_streams : RelayStream(id)
  \/ \E info \in Upstreams : UpstreamLost(info)

SpecThreads == InitThreads /\ [][NextThreads]_vars

(* ------------------- one relay stream on its own -------------------- *)

\* The relay has found the stream and started a RelayStream for it, with
\* any of --output, --monitor and --re-encode-timestamps.
InitRelayStream ==
  /\ SimulateIdle
  /\ args \in [pred : {<<>>}, non_local : {FALSE}, output : BOOLEAN,
               monitor : BOOLEAN, re_encode_timestamps : BOOLEAN]
  /\ relay = [NewRelay EXCEPT
                !.pc = "run", !.pred = compose(<<>>, FALSE),
                !.active_streams = dict_set(@, make_stream_key(Upstream), 1)]
  /\ network = {Upstream}
  /\ relay_streams = <<NewRelayStream(Upstream)>>
  /\ playback = NoPlayback
  /\ marker_thread = NoThread
  /\ sample_call = NoCall
  /\ threads = NoThreads

NextRelayStream ==
  \/ Tick
  \/ \E id \in DOMAIN relay_streams : RelayStream(id)
  \/ \E id \in DOMAIN relay_streams : UpstreamPush(id)
  \/ UpstreamLost(Upstream)
  \/ RelayRecvFromStreams
  \/ RelayStop
  \/ RelayJoin

SpecRelayStream == InitRelayStream /\ [][NextRelayStream]_vars

(* -------------------- the sample generator alone ---------------------- *)

\* A test stream is about to generate the sample of some index.
InitSample ==
  /\ SimulateIdle
  /\ args = [pred |-> <<>>, non_local |-> FALSE, output |-> TRUE,
             monitor |-> TRUE, re_encode_timestamps |-> FALSE]
  /\ relay = NewRelay
  /\ network = {}
  /\ relay_streams = <<>>
  /\ playback = NoPlayback
  /\ marker_thread = NoThread
  /\ \E self \in TestStreams, sample_idx \in SampleIdxs :
       sample_call = [pc |-> "call", self |-> self, sample_idx |-> sample_idx,
                      sample |-> <<>>]
  /\ threads = NoThreads

SpecSample == InitSample /\ [][GenerateSample]_vars

(* ---------------------- a receiver on its own ------------------------- *)

\* A ControlReceiver, or a MonitorReceiver with or without --json, has been
\* started.
InitThread ==
  /\ SimulateIdle
  /\ args = [pred |-> <<>>, non_local |-> FALSE, output |-> TRUE,
             monitor |-> TRUE, re_encode_timestamps |-> FALSE]
  /\ relay = NewRelay
  /\ network = {}
  /\ relay_streams = <<>>
  /\ playback = NoPlayback
  /\ marker_thread \in {NewThread("control", FALSE), NewThread("monitor", FALSE),
                        NewThread("monitor", TRUE)}
  /\ sample_call = NoCall
  /\ threads = NoThreads

NextThread ==
  \/ ThreadRun
  \/ ThreadStop

SpecThread == InitThread /\ [][NextThread]_vars

(* ------------------------ playback on its own ------------------------- *)

\* playback started on a table of one to MaxRows rows with any --start,
\* --stop, --loop and --read-chunk-size.
InitPlayback ==
  /\ SimulateIdle
  /\ args = [pred |-> <<>>, non_local |-> FALSE, output |-> TRUE,
             monitor |-> TRUE, re_encode_timestamps |-> FALSE]
  /\ relay = NewRelay
  /\ network = {}
  /\ relay_streams = <<>>
  /\ \E nrows \in 1..MaxRows, start \in 0..MaxRows,
        stop \in {None} \cup 0..(MaxRows + 1), loop \in BOOLEAN,
        read_chunk_size \in 0..MaxChunk :
       playback = [NoPlayback EXCEPT
                     !.pc = "first", !.nrows = nrows, !.start = start,
                     !.stop = stop, !.loop = loop,
                     !.read_chunk_size = read_chunk_size]
  /\ marker_thread = NoThread
  /\ sample_call = NoCall
  /\ threads = NoThreads

NextPlayback ==
  \/ PlaybackFirst
  \/ PlaybackPush
  \/ PlaybackFinally
  \/ PlaybackStop

SpecPlayback == InitPlayback /\ [][NextPlayback]_vars

(* ------------------ a worker followed on its own ---------------------- *)

\* What check_control_state reads from a message: its state, its time_stamp
\* (None, zero or a clock reading) and, on a START, its latency field, which
\* may be missing.
HandlerMessages ==
  {m \in [state : ControlStates,
          time_stamp : {None} \cup 0..MaxStamp,
          latency : {Latency, Absent}] :
     m.state # START => m.latency = Absent}

Mailboxes == UNION {[1..n -> HandlerMessages] : n \in 0..MaxMailbox}

\* The workers are spawned with the messages already waiting in their
\* mailboxes; nothing is sent to them afterwards and nobody sets their stop
\* events.
HandlerWith(now, queues) ==
  /\ clock = now
  /\ config = [controller |-> TRUE, sync |-> TRUE,
               max_samples |-> None, max_time |-> None]
  /\ stream = [w \in Streams |-> NewStream]
  /\ \E queue \in queues : mailbox = [w \in Streams |-> queue]
  /\ stop_event = [w \in Streams |-> FALSE]
  /\ outlet = [w \in Streams |-> <<>>]
  /\ handled = [w \in Streams |-> <<>>]
  /\ barrier = 0
  /\ sentinels = [w \in Streams |-> 0]
  /\ parent_queue = <<>>
  /\ parent = NewParent(TRUE)
  /\ receiver = NewReceiver(FALSE)
  /\ control_queue = <<>>
  /\ notified = 0
  /\ taken = <<>>
  /\ sender = NewSender
  /\ wire = <<>>
  /\ typed = <<>>
  /\ pulled = <<>>
  /\ forwarded = <<>>
  /\ args = [pred |-> <<>>, non_local |-> FALSE, output |-> TRUE,
             monitor |-> TRUE, re_encode_timestamps |-> FALSE]
  /\ relay = NewRelay
  /\ network = {}
  /\ relay_streams = <<>>
  /\ playback = NoPlayback
  /\ marker_thread = NoThread
  /\ sample_call = NoCall
  /\ threads = NoThreads

HandlerAt(now) == HandlerWith(now, Mailboxes)

InitHandler == HandlerAt(1)

NextHandler ==
  \/ Tick
  \/ \E w \in Streams : Worker(w)

SpecHandler == InitHandler /\ [][NextHandler]_vars

\* The same workers when the local clock may be well past the time stamps
\* of their messages by the time they run.
InitLate == \E now \in 1..(MaxClock + MaxLate) : HandlerAt(now)

SpecLate == InitLate /\ [][NextHandler]_vars

\* The same workers with three messages waiting: a START, a PAUSE and a
\* START again, as a controller sends them one after the other.
\* The PAUSE and the second START may be stamped up to MaxRestart, far
\* enough ahead for the worker to take both before the PAUSE is due.
RestartMessages ==
  {m \in [state : {START, PAUSE},
          time_stamp : {None} \cup 0..MaxRestart,
          latency : {Latency, Absent}] :
     m.state # START => m.latency = Absent}

RestartMailboxes ==
  {<<first, second, third>> :
     first \in {m \in HandlerMessages : m.state = START},
     second \in {m \in RestartMessages : m.state = PAUSE},
     third \in {m \in RestartMessages : m.state = START}}

InitRestart ==
  \E now \in 1..(MaxClock + MaxLate) : HandlerWith(now, RestartMailboxes)

SpecRestart == InitRestart /\ [][NextHandler]_vars

(* ------------------- reading the recorded histories ------------------- *)

\* The time stamp and the index of the i-th sample worker w pushed.
time_stamp_of(w, i) == outlet[w][i][2]
sample_idx_of(w, i) == outlet[w][i][1]

\* The k-th message worker w took is a START / a PAUSE / a STOP.
TookStart(w, k) == handled[w][k].message.state = START
TookPause(w, k) == handled[w][k].message.state = PAUSE
TookStop(w, k) == handled[w][k].message.state = STOP

\* The number of samples worker w had pushed when it took the message after
\* its k-th (or has pushed by now, when the k-th is the last one it took).
PushedUntilNext(w, k) ==
  IF k < Len(handled[w]) THEN handled[w][k + 1].pushed ELSE Len(outlet[w])

\* The START under which worker w pushed its i-th sample: the last START it
\* took before that push.
StartOf(w, i) ==
  CHOOSE k \in 1..Len(handled[w]) :
    /\ TookStart(w, k)
    /\ handled[w][k].pushed < i
    /\ \A j \in (k + 1)..Len(handled[w]) :
         ~(TookStart(w, j) /\ handled[w][j].pushed < i)

\* Worker w took a START and then, as its k-th message and while it was
\* running with its logical time still before the time stamp, a PAUSE.
InTimePause(w, k) ==
  /\ k \in 2..Len(handled[w])
  /\ TookStart(w, k - 1)
  /\ TookPause(w, k)
  /\ handled[w][k].running
  /\ handled[w][k].logical_time < handled[w][k].message.time_stamp

\* The PAUSE worker w took as its k-th message has taken effect: the worker
\* was paused when it took its next message, or is paused now.
PauseDone(w, k) ==
  IF k < Len(handled[w])
    THEN ~handled[w][k + 1].running
    ELSE ~Truthy(stream[w].start_time)

\* Samples worker w pushed between the START before its k-th message and the
\* message after the k-th.
PushedInSegment(w, k) == PushedUntilNext(w, k) - handled[w][k - 1].pushed

(* ------------------------------ properties ---------------------------- *)

\* C1: count correctness.  A worker configured with max_samples = M pushes
\* at most M samples (indices 0..M-1): never an (M+1)-th.
C1_CountCorrectness ==
  \A w \in Streams :
    config.max_samples # None =>
      /\ Len(outlet[w]) <= config.max_samples
      /\ \A i \in 1..Len(outlet[w]) : sample_idx_of(w, i) < config.max_samples

\* C2: synchronous start.  Two workers that took the same START with a time
\* stamp T as their first message both stamp their first sample T, however
\* far apart they are in taking the message and in pushing.
C2_SynchronousStart ==
  \A w1, w2 \in Streams :
    ( /\ w1 # w2
      /\ handled[w1] # <<>>
      /\ handled[w2] # <<>>
      /\ TookStart(w1, 1)
      /\ handled[w1][1].message = handled[w2][1].message
      /\ handled[w1][1].message.time_stamp # None )
    => \A w \in {w1, w2} :
         outlet[w] # <<>> =>
           time_stamp_of(w, 1) = handled[w1][1].message.time_stamp

\* Both workers have pushed their first sample under the same stamped START,
\* and one of them is a sample ahead of the other.
C2_Witness ==
  \E w1, w2 \in Streams :
    /\ w1 # w2
    /\ handled[w1] # <<>>
    /\ handled[w2] # <<>>
    /\ TookStart(w1, 1)
    /\ handled[w1][1].message = handled[w2][1].message
    /\ handled[w1][1].message.time_stamp # None
    /\ outlet[w2] # <<>>
    /\ Len(outlet[w1]) > Len(outlet[w2])
    /\ time_stamp_of(w1, 1) = time_stamp_of(w2, 1)

\* C3, as stated: whenever a worker is running, logical_time = start_time +
\* sample_count * delta, after any sequence of START / PAUSE / START.
C3_GridFromSampleCount ==
  \A w \in Streams :
    Truthy(stream[w].start_time) =>
      stream[w].logical_time =
        stream[w].start_time + stream[w].sample_count * Delta

\* C3, amended: the grid is laid from each START.  A sample is stamped the
\* start time of the START it was pushed under plus delta for every sample
\* pushed under that START before it, and the logical time of a running
\* worker is its start time plus delta for every sample pushed since.
C3_GridFromStart ==
  \A w \in Streams :
    /\ \A i \in 1..Len(outlet[w]) :
         LET k == StartOf(w, i)
         IN time_stamp_of(w, i) =
              handled[w][k].start_time + (i - handled[w][k].pushed - 1) * Delta
    /\ (Truthy(stream[w].start_time) /\ outlet[w] # <<>>) =>
         LET k == StartOf(w, Len(outlet[w]))
         IN stream[w].logical_time =
              stream[w].start_time + (Len(outlet[w]) - handled[w][k].pushed) * Delta

\* A worker is running under its second START and has pushed samples under
\* both.
C3_Witness ==
  \E w \in Streams :
    /\ Truthy(stream[w].start_time)
    /\ Len(outlet[w]) >= 2
    /\ StartOf(w, Len(outlet[w])) > StartOf(w, 1)

\* C4: ordering within a worker.  Samples are pushed in index order and the
\* time stamps one worker pushes are strictly increasing over its whole life.
C4_Ordering ==
  \A w \in Streams :
    \A i \in 1..Len(outlet[w]) :
      \A j \in 1..Len(outlet[w]) :
        i < j =>
          /\ sample_idx_of(w, i) < sample_idx_of(w, j)
          /\ time_stamp_of(w, i) < time_stamp_of(w, j)

\* C5: pause then resume.  A worker started at T that takes PAUSE(S) while
\* its logical time is before S, and is left to reach the pause, has pushed
\* exactly the samples T, T + delta, ... that lie before S, so that its
\* sample count is (S - T) / delta; the first sample after a following
\* START(T2) is stamped T2.
C5_PauseThenResume ==
  \A w \in Streams :
    \A k \in 2..Len(handled[w]) :
      (InTimePause(w, k) /\ PauseDone(w, k)) =>
        LET T == handled[w][k - 1].start_time
            S == handled[w][k].message.time_stamp
            first == handled[w][k - 1].pushed + 1
            last == PushedUntilNext(w, k)
        IN /\ \A i \in first..last :
                /\ time_stamp_of(w, i) = T + (i - first) * Delta
                /\ time_stamp_of(w, i) < S
           /\ T + PushedInSegment(w, k) * Delta >= S
           /\ (first = 1 /\ k = Len(handled[w])) =>
                stream[w].sample_count = PushedInSegment(w, k)
           /\ (k < Len(handled[w]) /\ TookStart(w, k + 1) /\ Len(outlet[w]) > last) =>
                time_stamp_of(w, last + 1) = handled[w][k + 1].message.time_stamp

\* A worker has pushed two samples up to a PAUSE, was paused when it took the
\* following START and has pushed a sample since.
C5_Witness ==
  \E w \in Streams :
    \E k \in 2..Len(handled[w]) :
      /\ InTimePause(w, k)
      /\ PauseDone(w, k)
      /\ PushedInSegment(w, k) >= 2
      /\ k < Len(handled[w])
      /\ TookStart(w, k + 1)
      /\ Len(outlet[w]) > PushedUntilNext(w, k)

\* C6: synchronised pause.  Two workers started by the same START that took
\* the same PAUSE, each before its logical time had reached the time stamp,
\* have pushed the same number of samples since the START and the same last
\* time stamp once both are paused.
C6_SynchronisedPause ==
  \A w1, w2 \in Streams :
    \A k \in 2..Len(handled[w1]) :
      ( /\ InTimePause(w1, k) /\ PauseDone(w1, k)
        /\ InTimePause(w2, k) /\ PauseDone(w2, k)
        /\ handled[w1][k - 1].message = handled[w2][k - 1].message
        /\ handled[w1][k].message = handled[w2][k].message )
      => /\ PushedInSegment(w1, k) = PushedInSegment(w2, k)
         /\ time_stamp_of(w1, PushedUntilNext(w1, k)) =
              time_stamp_of(w2, PushedUntilNext(w2, k))

\* Both workers are paused by the same PAUSE, which each took in time, with
\* two samples pushed since the START.
C6_Witness ==
  \E w1, w2 \in Streams :
    \E k \in 2..Len(handled[w1]) :
      /\ w1 # w2
      /\ InTimePause(w1, k) /\ PauseDone(w1, k)
      /\ InTimePause(w2, k) /\ PauseDone(w2, k)
      /\ handled[w1][k - 1].message = handled[w2][k - 1].message
      /\ handled[w1][k].message = handled[w2][k].message
      /\ PushedInSegment(w1, k) >= 2

\* C7: STOP while running.  A worker that took STOP(S) while it was running
\* leaves its main loop only when its logical time has reached S (the
\* parent's shutdown does not cut it short), and once the stop time has taken
\* effect it has left the loop by itself.
C7_StopWhileRunning ==
  \A w \in Streams :
    \A k \in 1..Len(handled[w]) :
      (TookStop(w, k) /\ handled[w][k].running /\ stream[w].exc = "none") =>
        /\ stream[w].pc \in {"finally", "stop_set", "stop_put", "ended"} =>
             stream[w].logical_time >= handled[w][k].message.time_stamp
        /\ ~Truthy(stream[w].start_time) =>
             stream[w].pc \in {"finally", "stop_set", "stop_put", "ended"}

\* C8: STOP while paused.  A worker that was paused after a PAUSE and then
\* took a STOP is not left waiting: when nothing in the system can take a
\* step any more, the worker has ended.
C8_StopWhilePaused ==
  \A w \in Streams :
    ( /\ \E k \in 2..Len(handled[w]) :
           TookPause(w, k - 1) /\ TookStop(w, k) /\ ~handled[w][k].running
      /\ ~ENABLED Next )
    => stream[w].pc = "ended"

\* C9: idle state.  A worker that has taken no START has pushed no sample
\* and has raised no error, whatever PAUSE or STOP it has taken.
C9_Idle ==
  \A w \in Streams :
    (\A k \in 1..Len(handled[w]) : ~TookStart(w, k)) =>
      /\ outlet[w] = <<>>
      /\ stream[w].exc = "none"

C11_SampleCountKept ==
  [][\A w \in Streams :
       /\ stream'[w].sample_count >= stream[w].sample_count
       /\ stream'[w].sample_count - stream[w].sample_count =
            Len(outlet'[w]) - Len(outlet[w])]_vars

\* A worker has taken a START after a PAUSE with samples already counted and
\* has counted on from there.
C11_Witness ==
  \E w \in Streams :
    \E k \in 2..Len(handled[w]) :
      /\ TookPause(w, k - 1)
      /\ TookStart(w, k)
      /\ handled[w][k].pushed >= 2
      /\ stream[w].sample_count > handled[w][k].pushed

\* C12: barrier rendezvous.  A worker that is past the barrier (in its main
\* loop or beyond, with or without a message taken or a sample pushed) finds
\* every worker with its outlet created and arrived at the barrier; and when
\* all have arrived, every worker still at the barrier can go on.
C12_BarrierRendezvous ==
  \A w \in Streams :
    /\ (stream[w].pc \notin {"create", "barrier"}
          \/ handled[w] # <<>> \/ outlet[w] # <<>>) =>
         /\ barrier = NumStreams
         /\ \A v \in Streams : stream[v].pc # "create"
    /\ (stream[w].pc = "barrier" /\ barrier = NumStreams) =>
         ENABLED BarrierWait(w)

\* One worker has gone on into its loop and pushed a sample while the other,
\* the last to arrive, has not yet left the barrier.
C12_Witness ==
  \E w, v \in Streams :
    /\ outlet[w] # <<>>
    /\ stream[v].pc = "barrier"
    /\ barrier = NumStreams

\* C13: idempotent stop.  Whatever the interleaving of the stop() calls of
\* the parent and of the worker itself, no worker has more than one sentinel
\* put on the shared queue for it, and a worker that has ended has its stop
\* flag set and exactly one.
C13_IdempotentStop ==
  \A w \in Streams :
    /\ sentinels[w] <= 1
    /\ stream[w].pc = "ended" => (stop_event[w] /\ sentinels[w] = 1)

\* C14: shutdown of blocked workers.  Once the parent's stop() has set the
\* stop flag of a worker and waits to join its workers, that worker is not
\* waiting, idle or paused, for a message from its empty mailbox.
C14_BlockedWorkersShutDown ==
  \A w \in Streams :
    (parent.stop = "streams" /\ stop_event[w]) =>
      ~( /\ stream[w].pc = "control"
         /\ takes_message(stream[w], mailbox[w])
         /\ mailbox[w] = <<>> )

(* ------------------- histories of the control stream ------------------ *)

StatesOf(seq) == [i \in DOMAIN seq |-> seq[i].state]

\* The states of the commands entered so far, undefined commands left out.
TypedStates ==
  StatesOf(SelectSeq([i \in DOMAIN typed |-> [state |-> state_of(typed[i])]],
                     LAMBDA c : c.state # None))

\* A sequence of states with every state that repeats the one before it
\* left out; the one before the first is `before`.
RECURSIVE Changes(_, _)
Changes(before, states) ==
  IF states = <<>> THEN <<>>
  ELSE IF Head(states) = before THEN Changes(before, Tail(states))
  ELSE <<Head(states)>> \o Changes(Head(states), Tail(states))

\* C15 as stated: every command entered reaches the receiver in order, and
\* for each one pulled, repeated commands and a stop entered first included,
\* exactly one message with the same state has been forwarded.
C15_RoundTrip ==
  /\ StatesOf(pulled) \o StatesOf(wire) = TypedStates
  /\ StatesOf(forwarded) = StatesOf(pulled)

\* C15: round-trip control.  Every command entered reaches the receiver in
\* order, and exactly one message with the same state is forwarded for each
\* command whose state differs from that of the command before it (STOP
\* before the first); a command that repeats the state before it is not
\* forwarded.
C15_RoundTripOfChanges ==
  /\ StatesOf(pulled) \o StatesOf(wire) = TypedStates
  /\ StatesOf(forwarded) = Changes(STOP, StatesOf(pulled))

C15_Witness ==
  /\ typed = <<"start", "start", "stop">>
  /\ wire = <<>>
  /\ StatesOf(forwarded) = <<START, STOP>>

\* C16: state-change filter.  A turn of the receiver that pulls a message
\* forwards it if and only if its state differs from the last observed
\* state (STOP at first); the forwarded message carries the time stamp of
\* the sample pulled; so no two messages forwarded one after the other have
\* the same state.
C16_StateChangeFilter ==
  [][Len(pulled') > Len(pulled) =>
       LET message == pulled'[Len(pulled')] IN
         /\ forwarded' = IF message.state # receiver.state
                           THEN Append(forwarded, message)
                           ELSE forwarded
         /\ message.time_stamp = Head(wire).time_stamp
         /\ \A i \in 1..(Len(forwarded') - 1) :
              forwarded'[i].state # forwarded'[i + 1].state]_vars

C16_Witness ==
  /\ Len(forwarded) = 2
  /\ Len(pulled) = 3
  /\ forwarded[1].time_stamp < forwarded[2].time_stamp

\* C17: every STOP the receiver pulls terminates it: right after the turn
\* that pulled a STOP the stop flag is set, whatever the state observed
\* before, a STOP pulled first included.
C17_StopTerminatesReceiver ==
  (pulled # <<>> /\ pulled[Len(pulled)].state = STOP) => receiver.stopped

\* C18: every START the control sender publishes carries a latency field,
\* and no worker that takes it from its mailbox fails on a missing field.
C18_StartCarriesLatency ==
  /\ \A i \in DOMAIN pulled :
       pulled[i].state = START => pulled[i].latency # Absent
  /\ \A w \in Streams : stream[w].exc # "KeyError"

(* --------------------------- the broadcast ---------------------------- *)

MessagesOf(w) == [i \in DOMAIN handled[w] |-> handled[w][i].message]

\* The messages got from the receiver's queue that the broadcast has
\* already offered to worker w.
OfferedTo(w) ==
  IF parent.rc = "sending" /\ parent.i <= w
    THEN SubSeq(taken, 1, Len(taken) - 1)
    ELSE taken

Excluded(info) ==
  starts_with(info.name, RELAY) \/ starts_with(info.name, MONITOR)

C21_SupervisorCollection ==
  [][RelayRun =>
       \A key \in DOMAIN relay'.active_streams :
          relay_streams'[relay'.active_streams[key]].pc # "ended"]_vars

\* Has a RelayStream for this key ended on a LostError?
LostBefore(key) ==
  \E id \in DOMAIN relay_streams :
     /\ make_stream_key(relay_streams[id].info) = key
     /\ relay_streams[id].pc = "ended"
     /\ relay_streams[id].exc = "LostError"

\* C22: respawn after upstream loss.  A turn of the relay's loop removes
\* the entry of a RelayStream that has ended on a LostError; a later turn
\* in which the resolver reports the key again starts a new RelayStream for
\* it; and the relay leaves its loop only when it is stopped itself.
C22_RespawnAfterLoss ==
  [][/\ RelayRun =>
          /\ \A key \in DOMAIN relay.active_streams :
                LET s == relay_streams[relay.active_streams[key]] IN
                  (s.pc = "ended" /\ s.exc = "LostError")
                     => key \notin DOMAIN relay'.active_streams
          /\ \A info \in results :
                LET key == make_stream_key(info) IN
                  (key \notin DOMAIN relay.active_streams /\ LostBefore(key))
                     => /\ key \in DOMAIN relay'.active_streams
                        /\ relay'.active_streams[key] > Len(relay_streams)
                        /\ relay_streams'[relay'.active_streams[key]]
                             = NewRelayStream(info)
     /\ (relay.pc = "run" /\ relay'.pc # "run") => RelayStop]_vars

C22_Witness ==
  /\ relay.pc = "run"
  /\ ~relay.stop_event
  /\ LET key == make_stream_key(Upstream) IN
       /\ LostBefore(key)
       /\ key \in DOMAIN relay.active_streams
       /\ relay_streams[relay.active_streams[key]].pc = "pull"

(* -------------------------- what is relayed --------------------------- *)

\* The payloads and time stamps of a sequence of samples.
Samples(seq) ==
  [i \in DOMAIN seq |-> [payload |-> seq[i].payload,
                         timestamp |-> seq[i].timestamp]]

C28_Deduplication ==
  [][RelayRun =>
       /\ \A key \in DOMAIN relay'.active_streams :
             make_stream_key(relay_streams'[relay'.active_streams[key]].info) = key
       /\ \A key \in DOMAIN relay.active_streams \cap DOMAIN relay'.active_streams :
             relay'.active_streams[key] = relay.active_streams[key]
       /\ Len(relay_streams') - Len(relay_streams)
            = Cardinality({make_stream_key(info) : info \in results}
                            \ DOMAIN relay.active_streams)]_vars

C28_Witness ==
  /\ relay.pc = "run"
  /\ Cardinality(DOMAIN relay.active_streams) = 2
  /\ Len(relay_streams) = 2
  /\ \A id \in DOMAIN relay_streams :
        /\ relay_streams[id].pc = "pull"
        /\ relay_streams[id].info \in network
        /\ relay.active_streams[make_stream_key(relay_streams[id].info)] = id

(* ------------------------ stopping a RelayStream ---------------------- *)

\* C30: relay worker shutdown.  Once the relay has called stop() on a
\* RelayStream and waits in join(), the RelayStream is not held in
\* pull_sample by an upstream that is connected and silent: it can go on to
\* its finally clause and end, so that join() returns.
C30_RelayStreamShutdown ==
  relay.pc = "join" =>
     \A id \in ActiveProcs :
        LET s == relay_streams[id] IN
          s.stop_event => ~(s.pc = "pull" /\ s.inlet = <<>> /\ ~s.lost)

(* -------------------------- malformed payloads ------------------------ *)

\* C25: malformed payload.  A payload that is empty, is no JSON or lacks
\* the key 'state' is dropped by the control receiver: nothing is put on
\* the queue for it and the receiver goes on as it was, ready for the next
\* sample.
C25_MalformedDropped ==
  [][\A text \in Malformed :
        PullMalformed(text) =>
           /\ receiver' = receiver
           /\ control_queue' = control_queue]_vars

(* --------------------------- a worker fails --------------------------- *)

\* A worker that waits at the barrier for a worker that will never come.
BlockedAtBarrier(w) ==
  /\ stream[w].pc = "barrier"
  /\ barrier + Cardinality({v \in Streams : stream[v].pc = "create"}) < NumStreams

\* C26: fatal child error.  A worker that has ended on an error has put its
\* sentinel on the parent's queue, and no other worker is left waiting for
\* it for ever.
C26_FatalChildError ==
  \A w \in Streams :
     (stream[w].pc = "ended" /\ stream[w].exc # "none") =>
        /\ sentinels[w] >= 1
        /\ \A v \in Streams \ {w} : ~BlockedAtBarrier(v)

(* ------------------------------ playback ------------------------------ *)

\* The rows start, start + 1, ... of the requested range.
Range ==
  LET last == IF playback.stop = None THEN playback.nrows
              ELSE min(playback.stop, playback.nrows)
  IN [k \in 1..(IF last > playback.start THEN last - playback.start ELSE 0)
        |-> playback.start + k - 1]

\* C27: playback order.  What playback has pushed is the requested range in
\* index order, over and over: no row is skipped or pushed twice, at the
\* wrap either.  Without --loop the range is pushed once and the stream
\* ends when the rows are exhausted; with --loop they are never exhausted.
C27_PlaybackOrder ==
  /\ \A i \in DOMAIN playback.pushed :
        /\ Range # <<>>
        /\ playback.pushed[i] = Range[((i - 1) % Len(Range)) + 1]
  /\ ~playback.loop =>
        /\ Len(playback.pushed) <= Len(Range)
        /\ playback.exc = "StopIteration" => playback.pushed = Range
        /\ (playback.pc = "loop" /\ ~playback.stop_event)
              => Len(playback.pushed) < Len(Range)
  /\ playback.loop => playback.exc # "StopIteration"

C27_Witness ==
  /\ playback.loop
  /\ playback.generator.pc = "chunks"
  /\ Len(playback.pushed) > Len(Range)

\* What the first k calls of next() give on a generator in state g: a row
\* each, or the exception (or the endless loop) that ends them.
RECURSIVE yielded(_, _, _)
yielded(p, g, k) ==
  IF k = 0 THEN <<>>
  ELSE LET n == next(p, g) IN
    IF "yields" \in DOMAIN n
      THEN <<[yields |-> n.yields, raises |-> "none"]>>
             \o yielded(p, n.generator, k - 1)
    ELSE IF "raises" \in DOMAIN n
      THEN <<[yields |-> None, raises |-> n.raises]>>
    ELSE <<[yields |-> None, raises |-> "spins"]>>

\* The chunk sizes compared: 0, and sizes below, at and above the number of
\* rows requested.
ReadChunkSizes == 0..(MaxRows + 1)

\* C34: chunked reading equivalence.  For the start, stop and loop of the
\* playback, every read_chunk_size makes the generator yield the same rows
\* in the same order and end in the same way; so what the playback has
\* pushed and holds is what any other chunk size would have given it.
C34_ChunkedReading ==
  \A size \in ReadChunkSizes :
    LET other == [playback EXCEPT !.read_chunk_size = size]
        whole == [playback EXCEPT !.read_chunk_size = 0]
        n == Len(playback.pushed)
        ys == yielded(other, NewGenerator, n + 1)
    IN /\ yielded(other, NewGenerator, MaxPlayed + 1)
            = yielded(whole, NewGenerator, MaxPlayed + 1)
       /\ playback.pc # "none" =>
            /\ Len(ys) >= n
            /\ \A i \in 1..n : ys[i].yields = playback.pushed[i]
            /\ playback.pc = "loop" =>
                  /\ Len(ys) = n + 1
                  /\ ys[n + 1].yields = playback.sample
            /\ playback.exc # "none" =>
                  /\ Len(ys) = n + 1
                  /\ ys[n + 1].raises = playback.exc

C34_Witness ==
  /\ playback.read_chunk_size = 1
  /\ playback.loop
  /\ playback.start = 1
  /\ playback.stop = None
  /\ Len(playback.pushed) = MaxPlayed
  /\ playback.generator.pc = "chunks"

(* ------------------------- PAUSE, then START ------------------------- *)

\* Worker w, running and not yet at t1, took PAUSE(t1) as its k-th message
\* and, still short of t1, START(t2) with t2 >= t1 as the one after it.
PausedThenStarted(w, k) ==
  /\ k + 1 <= Len(handled[w])
  /\ TookPause(w, k)
  /\ TookStart(w, k + 1)
  /\ handled[w][k].running
  /\ handled[w][k + 1].running
  /\ handled[w][k].message.time_stamp # None
  /\ handled[w][k + 1].message.latency # Absent
  /\ Truthy(handled[w][k + 1].message.time_stamp)
  /\ handled[w][k + 1].message.time_stamp >= handled[w][k].message.time_stamp
  /\ handled[w][k + 1].logical_time < handled[w][k].message.time_stamp

\* C35: PAUSE followed by START is not lost.  A running worker that has
\* taken PAUSE(t1) and then START(t2), t2 >= t1, both before its logical
\* time reached t1, is running from t2 once it has handled the START: it is
\* not left paused, and the sample it pushes next is stamped t2.
C35_RestartNotLost ==
  \A w \in Streams : \A k \in 1..Len(handled[w]) :
    (PausedThenStarted(w, k) /\ Len(handled[w]) = k + 1) =>
      /\ Truthy(stream[w].start_time)
      /\ PushedUntilNext(w, k + 1) > handled[w][k + 1].pushed =>
            time_stamp_of(w, handled[w][k + 1].pushed + 1)
              = handled[w][k + 1].message.time_stamp

(* ------------------- the parent without a controller ------------------ *)

\* Every worker has taken its START and has ended with its stop event set.
AllTerminated ==
  \A w \in Streams :
    /\ handled[w] # <<>>
    /\ stream[w].pc = "ended"
    /\ stop_event[w]

\* C38: parent termination.  Without a controller, once every worker has
\* started and has ended by itself, the parent is never left waiting: its
\* recv_from_streams is not blocked on an empty queue, and stop() and the
\* joins of start() go through until start() has returned, whatever the
\* order of the workers' event sets and sentinel puts and the parent's
\* loop tests.
C38_ParentTerminates ==
  (~config.controller /\ AllTerminated) =>
    /\ ~(parent.rs = "get" /\ parent_queue = <<>>)
    /\ parent.main = "done" \/ ENABLED Parent

C38_Witness ==
  /\ ~config.controller
  /\ AllTerminated
  /\ parent.main = "done"
  /\ parent_queue # <<>>
  /\ \A w \in Streams : sentinels[w] = 1

(* ---------------------- pushing only while running ------------------- *)

\* Worker w pushes a sample or changes its sample_count in this step.
Pushes(w) ==
  \/ outlet'[w] # outlet[w]
  \/ stream'[w].sample_count # stream[w].sample_count

\* C39: a worker pushes only while it is running.  A step that pushes a
\* sample or changes sample_count is made by a worker that is running
\* after it, and that was running before it or has taken a START in it:
\* before the first START, and from the turn in which a PAUSE or STOP takes
\* effect to the handling of the next START, nothing is pushed and the
\* count stays.
C39_PushOnlyWhileRunning ==
  [][\A w \in Streams :
       Pushes(w) =>
         /\ Truthy(stream'[w].start_time)
         /\ Len(outlet'[w]) = Len(outlet[w]) + 1
         /\ stream'[w].sample_count = stream[w].sample_count + 1
         /\ \/ Truthy(stream[w].start_time)
            \/ /\ Len(handled'[w]) = Len(handled[w]) + 1
               /\ handled'[w][Len(handled'[w])].message.state = START]_vars

\* A worker that has pushed, was paused, and has taken a PAUSE or STOP
\* while paused without pushing anything.
C39_Witness ==
  \E w \in Streams :
    /\ handled[w] # <<>>
    /\ ~handled[w][Len(handled[w])].running
    /\ handled[w][Len(handled[w])].message.state # START
    /\ handled[w][Len(handled[w])].pushed > 0
    /\ Len(outlet[w]) = handled[w][Len(handled[w])].pushed
    /\ stream[w].pc = "loop"
    /\ ~Truthy(stream[w].start_time)

(* ----------------- the active streams, iterated ---------------------- *)

\* The main thread is inside a loop over active_streams.values().
Iterating == threads.main.pc \in {"send", "stop", "join"}

\* C36: the active set is not modified under the dispatcher.  While the
\* main thread iterates over active_streams, to broadcast a message or to
\* stop and join the streams, the resolver thread neither enters nor
\* deletes a key; no iteration fails part-way, and a broadcast that has
\* ended has reached the streams that were active when it began and were
\* alive, and no other.
C36_StableIteration ==
  /\ Iterating => DOMAIN relay.active_streams = threads.main.view
  /\ threads.main.exc # "RuntimeError"
  /\ (threads.main.pc = "idle" /\ threads.main.broadcasts > 0) =>
        /\ threads.main.reached \subseteq threads.main.began
        /\ \A id \in threads.main.began \ threads.main.reached :
              relay_streams[id].pc = "ended"

\* C37: no worker survives the shutdown.  When stop() has set the relay's
\* event, stopped the active streams and joined them, every RelayStream
\* that was ever started, then or by a resolver tick that was in progress,
\* has its stop event set and has ended, and none is started afterwards.
C37_NoSurvivor ==
  threads.main.pc = "stopped" =>
    \A id \in DOMAIN relay_streams :
      /\ relay_streams[id].stop_event
      /\ relay_streams[id].pc = "ended"

(* ------------------------ stopping a receiver ------------------------- *)

\* C31: responsive receiver shutdown.  Once stop() has been called on a
\* receiver, resolving or waiting for a sample, the thread is never held
\* where it is: the call it waits in returns at its timeout and the loop
\* test that follows leaves the loop.  It ends with its inlet, if it opened
\* one, closed by itself.
C31_ResponsiveShutdown ==
  /\ (marker_thread.stop_event /\ marker_thread.pc \notin {"none", "ended"})
        => ENABLED ThreadRun
  /\ marker_thread.pc = "pulling" /\ marker_thread.stop_event
        => ENABLED ThreadPull("timeout")
  /\ marker_thread.pc = "ended" =>
        /\ marker_thread.inlet # "open"
        /\ marker_thread.inlet = "closed" => marker_thread.closed_by = "thread"

C31_Witness ==
  /\ marker_thread.pc = "ended"
  /\ marker_thread.exc = "none"
  /\ marker_thread.inlet = "closed"
  /\ marker_thread.pulls = 0
  /\ marker_thread.kind = "monitor"

(* --------------------------- a late worker ---------------------------- *)

\* C32: no skipping when late.  When a running worker comes to its loop
\* body with the clock past its logical_time, it pushes the sample of its
\* sample_count stamped its logical_time, one index and one period after
\* the sample before, and goes on by one index and one period: nothing is
\* dropped, only the sleep is left out.
C32_NoSkipWhenLate ==
  [][\A w \in Streams :
        (/\ stream[w].pc = "control"
         /\ stream'[w] # stream[w]
         /\ Truthy(stream[w].start_time)
         /\ clock > stream[w].logical_time
         /\ mailbox[w] = <<>>
         /\ stream[w].stop_time = None)
        => /\ outlet'[w] = Append(outlet[w], <<stream[w].sample_count,
                                               stream[w].logical_time>>)
           /\ stream[w].elapsed_time > 0 =>
                 LET last == outlet[w][Len(outlet[w])] IN
                   /\ stream[w].sample_count = last[1] + 1
                   /\ stream[w].logical_time = last[2] + Delta
           /\ stream'[w].sample_count = stream[w].sample_count + 1
           /\ stream'[w].logical_time = stream[w].logical_time + Delta
           /\ stream'[w].logical_time <= clock => stream'[w].pc = "loop"]_vars

\* The clock was at its latest from the start, so every sample here was
\* pushed late.
C32_Witness ==
  /\ clock = MaxClock + MaxLate
  /\ \E w \in Streams :
        /\ Len(outlet[w]) = MaxPushed
        /\ \A i \in DOMAIN outlet[w] : outlet[w][i][2] < clock
        /\ \A i \in 1..(Len(outlet[w]) - 1) :
              /\ outlet[w][i + 1][1] = outlet[w][i][1] + 1
              /\ outlet[w][i + 1][2] = outlet[w][i][2] + Delta

(* ------------------------- the sample generator ----------------------- *)

\* The value the table gives a tag for sample n, channel c, stream s.
TableValue(tag, n, c, s, channel_count, srate) ==
  CASE tag = "stream-id" -> s
    [] tag = "stream-seq" -> s + c
    [] tag = "counter" -> n
    [] tag = "counter+" -> n * channel_count + c
    [] tag = "counter-mod-fs" -> n % srate
    [] OTHER -> IF n % srate = 0 THEN 1 ELSE 0

\* C33: sample generator.  Every sample a test stream generates has, in
\* each channel, the table value of the channel's tag in the stream's
\* channel format, a channel beyond the end of the tag list using the last
\* tag.
C33_SampleGenerator ==
  sample_call.pc = "returned" =>
     LET self == sample_call.self IN
       /\ DOMAIN sample_call.sample = 1..self.channel_count
       /\ \A c \in 1..self.channel_count :
             LET tag == self.functions[IF c <= Len(self.functions) THEN c
                                       ELSE Len(self.functions)]
                 value == TableValue(tag, sample_call.sample_idx, c - 1,
                                     self.stream_idx, self.channel_count,
                                     self.nominal_srate)
             IN sample_call.sample[c] =
                  IF self.dtype = "string" THEN [str |-> value]
                  ELSE [value |-> value]

====
